---- MODULE Spec2Model ----
(***************************************************************************)
(* Model of the chatbot back end: the tool orchestrator (LLMService), the  *)
(* exchange rate client (OpenExchangeRatesService) and the catalog store   *)
(* and search engine (CSVProductRepository, Product).                      *)
(*                                                                         *)
(* Conventions.  A string the code inspects (toUpperCase, trim, includes,  *)
(* length) is a sequence of one-character strings.  A text the code only   *)
(* passes on or builds by interpolation (messages, error messages) is a    *)
(* sequence of string tokens.  undefined and null are the one-token        *)
(* sequences Undefined and Null, never an inspected string; a missing      *)
(* number is undefinedNum.  An operation that may throw yields             *)
(* [ok |-> TRUE, val |-> v] or [ok |-> FALSE, err |-> message].            *)
(***************************************************************************)
EXTENDS Integers, Sequences, FiniteSets, TLC

VARIABLES
    \* CSVProductRepository
    products,          \* this.products
    productTypes,      \* this.productTypes
    isInitialized,     \* this.isInitialized
    loading,           \* onModuleInit: pending, resolved, or rejected (missing, unreadable)
    catalogResult,     \* what the last direct call of a catalog operation settled with
    searchLog,         \* criteria of every productRepository.searchProducts call made
    \* OpenExchangeRatesService
    ratesCache,        \* this.ratesCache: cache key -> entry
    now,               \* Date.now()
    providerRequests,  \* number of requests issued to the provider so far
    currenciesCache,   \* this.currenciesCache
    currenciesCacheTimestamp,  \* this.currenciesCacheTimestamp
    rateCalls,         \* direct getExchangeRate calls in progress, per client
    lastRate,          \* what the last step of the rate client did, and its outcome
    \* LLMService.chat, one invocation
    pc,                \* position of chat(): idle, oracle1, tools, oracle2, done
    request,           \* the LLMChatRequest
    conversationId,    \* const conversationId of chat()
    messages,          \* the messages array of chat()
    oracleCalls,       \* the message lists sent to the oracle so far, in order
    initialResponse,   \* the first oracle message
    finalChoice,       \* the second oracle message
    toolState,         \* per requested call: "none", "resolved", "http", "done"
    toolResults,       \* per requested call: the settled ToolExecutionResult
    completionOrder,   \* order in which the tool executions settled
    response,          \* the LLMChatResponse returned
    raised,            \* chat() rejected instead of returning
    caught             \* the catch block of chat() ran

vars == <<products, productTypes, isInitialized, loading, catalogResult, searchLog, ratesCache,
          now, providerRequests, currenciesCache, currenciesCacheTimestamp,
          rateCalls, lastRate, pc, request, conversationId, messages, oracleCalls,
          initialResponse, finalChoice, toolState, toolResults, completionOrder, response,
          raised, caught>>

catalogVars == <<products, productTypes, isInitialized, loading>>
currencyVars == <<currenciesCache, currenciesCacheTimestamp>>
rateVars == <<ratesCache, now, providerRequests, rateCalls, lastRate>>
chatVars == <<pc, request, conversationId, messages, oracleCalls, initialResponse,
              finalChoice, toolState, toolResults, completionOrder, response, raised, caught>>

-----------------------------------------------------------------------------
\* Bounds of the model.

MaxToolCalls == 2      \* tool calls the oracle requests in one turn
MaxTime == 4           \* Date.now() ranges over 0..MaxTime
MaxRequests == 3       \* provider requests issued in one behaviour
cacheTtl == 2          \* exchangeRates.cacheTtl, in the time units of now
Clients == {"a", "b"}  \* concurrent direct callers of getExchangeRate

-----------------------------------------------------------------------------
\* JavaScript values and string functions.

Undefined == <<"<undefined>">>
Null == <<"<null>">>
undefinedNum == 0 - 999999
NaN == 0 - 999998
Infinity == 0 - 999997

Lower == <<"a","b","c","d","e","f","g","h","i","j","k","l","m",
           "n","o","p","q","r","s","t","u","v","w","x","y","z">>
Upper == <<"A","B","C","D","E","F","G","H","I","J","K","L","M",
           "N","O","P","Q","R","S","T","U","V","W","X","Y","Z">>
Whitespace == {" ", "\t", "\n"}

isString(s) == s # Undefined /\ s # Null

upperChar(c) ==
    IF \E i \in 1..26 : Lower[i] = c
    THEN Upper[CHOOSE i \in 1..26 : Lower[i] = c] ELSE c

lowerChar(c) ==
    IF \E i \in 1..26 : Upper[i] = c
    THEN Lower[CHOOSE i \in 1..26 : Upper[i] = c] ELSE c

toUpperCase(s) == [i \in 1..Len(s) |-> upperChar(s[i])]
toLowerCase(s) == [i \in 1..Len(s) |-> lowerChar(s[i])]

trim(s) ==
    LET keep == {i \in 1..Len(s) : s[i] \notin Whitespace}
    IN IF keep = {} THEN <<>>
       ELSE SubSeq(s, CHOOSE i \in keep : \A j \in keep : i <= j,
                      CHOOSE i \in keep : \A j \in keep : i >= j)

includes(s, sub) ==
    \E i \in 0..(Len(s) - Len(sub)) : SubSeq(s, i + 1, i + Len(sub)) = sub

\* `s?.trim()` used as a condition: false for undefined, null and blank strings.
truthyTrimmed(s) == isString(s) /\ trim(s) # <<>>

\* A text used as a condition (`x || fallback`, `!x`): false for undefined, null, "".
truthy(s) == isString(s) /\ s # <<>>

isNumber(x) == x \notin {undefinedNum, NaN, Infinity}

Ok(v) == [ok |-> TRUE, val |-> v, err |-> <<>>]
Throw(msg) == [ok |-> FALSE, val |-> <<>>, err |-> msg]

-----------------------------------------------------------------------------
\* Product entity.  Numeric prices are counted in tenths (13.5 is 135); the
\* catalog's price strings carry at most one fraction digit.

Digits == <<"0","1","2","3","4","5","6","7","8","9">>
isDigit(c) == \E i \in 1..10 : Digits[i] = c
digitVal(c) == (CHOOSE i \in 1..10 : Digits[i] = c) - 1

RECURSIVE digitsVal(_)
digitsVal(s) ==
    IF s = <<>> THEN 0
    ELSE 10 * digitsVal(SubSeq(s, 1, Len(s) - 1)) + digitVal(s[Len(s)])

\* Last index of the run of digits of s that starts at index i.
runEnd(s, i) ==
    CHOOSE j \in i..Len(s) :
        /\ \A k \in i..j : isDigit(s[k])
        /\ (j = Len(s) \/ ~isDigit(s[j + 1]))

Product(data) ==
    [displayTitle |-> IF truthy(data.displayTitle) THEN data.displayTitle ELSE <<>>,
     embeddingText |-> IF truthy(data.embeddingText) THEN data.embeddingText ELSE <<>>,
     url |-> IF truthy(data.url) THEN data.url ELSE <<>>,
     productType |-> IF truthy(data.productType) THEN data.productType ELSE <<>>,
     discount |-> IF isNumber(data.discount) THEN data.discount ELSE 0,
     price |-> IF truthy(data.price) THEN data.price ELSE <<"0",".","0"," ","U","S","D">>,
     variants |-> data.variants]

hasDiscount(p) == p.discount = 1

\* this.price.match(/(\d+(?:\.\d+)?)/), then parseFloat of the match.
getNumericPrice(p) ==
    LET s == p.price
        ds == {i \in 1..Len(s) : isDigit(s[i])}
    IN IF ds = {} THEN 0
       ELSE LET i == CHOOSE a \in ds : \A b \in ds : a <= b
                j == runEnd(s, i)
                whole == digitsVal(SubSeq(s, i, j))
                frac == IF j + 2 <= Len(s) /\ s[j + 1] = "." /\ isDigit(s[j + 2])
                        THEN digitVal(s[j + 2]) ELSE 0
            IN 10 * whole + frac

hasVariants(p) == isString(p.variants) /\ p.variants # <<>> /\ trim(p.variants) # <<>>

matchesQuery(p, query) ==
    includes(toLowerCase(p.displayTitle \o <<" ">> \o p.embeddingText),
             toLowerCase(query))

getSummary(p) ==
    p.displayTitle \o <<" ", "-", " ">> \o p.price
        \o (IF hasDiscount(p) THEN <<" (On Sale)">> ELSE <<>>)

-----------------------------------------------------------------------------
\* CSVProductRepository: load.

sanitizeString(value) == IF isString(value) THEN trim(value) ELSE <<>>

\* parseInt(text, 10): optional sign, then the leading digits; NaN without any.
parseInt(text) ==
    LET s == trim(text)
        neg == s # <<>> /\ s[1] = "-"
        t == IF s # <<>> /\ s[1] \in {"-", "+"} THEN Tail(s) ELSE s
    IN IF t = <<>> \/ ~isDigit(t[1]) THEN NaN
       ELSE LET v == digitsVal(SubSeq(t, 1, runEnd(t, 1)))
            IN IF neg THEN 0 - v ELSE v

Max(a, b) == IF a >= b THEN a ELSE b
Min(a, b) == IF a <= b THEN a ELSE b

\* Mutant of rowProduct: the parsed discount is kept as it is.
rowProductUnclamped(row) ==
    LET discountValue == IF truthy(row.discount) THEN parseInt(row.discount) ELSE 0
    IN Product([displayTitle |-> sanitizeString(row.displayTitle),
                embeddingText |-> sanitizeString(row.embeddingText),
                url |-> sanitizeString(row.url),
                productType |-> sanitizeString(row.productType),
                discount |-> IF discountValue = NaN THEN 0 ELSE discountValue,
                price |-> sanitizeString(row.price),
                variants |-> sanitizeString(row.variants)])

\* The 'data' handler of loadProducts: the product of one row.
rowProduct(row) ==
    LET discountValue == IF truthy(row.discount) THEN parseInt(row.discount) ELSE 0
        parsedDiscount == IF discountValue = NaN THEN 0
                          ELSE Max(0, Min(1, discountValue))
    IN Product([displayTitle |-> sanitizeString(row.displayTitle),
                embeddingText |-> sanitizeString(row.embeddingText),
                url |-> sanitizeString(row.url),
                productType |-> sanitizeString(row.productType),
                discount |-> parsedDiscount,
                price |-> sanitizeString(row.price),
                variants |-> sanitizeString(row.variants)])

\* The rows kept by the 'data' handler, in source order.
RECURSIVE loadRows(_)
loadRows(rows) ==
    IF rows = <<>> THEN <<>>
    ELSE LET product == rowProduct(rows[Len(rows)])
             before == loadRows(SubSeq(rows, 1, Len(rows) - 1))
         IN IF product.displayTitle # <<>> /\ product.url # <<>>
            THEN Append(before, product) ELSE before

\* The rows of the catalog file.
Row(title, text, url, type, discount, price, variants) ==
    [displayTitle |-> title, embeddingText |-> text, url |-> url,
     productType |-> type, discount |-> discount, price |-> price,
     variants |-> variants]

Tech == <<"T","e","c","h">>
Home == <<"H","o","m","e">>

CsvRows ==
    << Row(<<"T","v">>, <<"o","l","e","d">>, <<"u","1">>, Tech, <<"0">>,
           <<"9","0","0",".","0"," ","U","S","D">>, Undefined),
       Row(<<" ","t","v"," ","X">>, <<>>, <<"u","2">>, Tech, <<"1">>,
           <<"1","3",".","0"," ","-"," ","1","5",".","0"," ","U","S","D">>, <<"r","e","d">>),
       Row(<<"P","a","n">>, <<"i","r","o","n">>, <<"u","3">>, Home, <<"x">>,
           <<"2","0",".","5"," ","U","S","D">>, <<" ">>),
       Row(<<>>, <<"t","v">>, <<"u","4">>, Tech, <<"1">>, <<"5",".","0">>, Undefined),
       Row(<<"L","e","d">>, <<"A"," ","T","V">>, <<"u","5">>, <<"t","e","c","h">>, <<"7">>,
           <<"1","8","0",".","0"," ","U","S","D">>, Undefined),
       Row(<<"M","u","g">>, <<"c","u","p">>, <<"u","6">>, Home, <<"1">>,
           Undefined, Undefined) >>

\* The UTF-16 code unit of a character, for the characters of the catalog.
codeUnit(c) ==
    IF \E k \in 1..26 : Upper[k] = c THEN 64 + (CHOOSE k \in 1..26 : Upper[k] = c)
    ELSE IF \E k \in 1..26 : Lower[k] = c THEN 96 + (CHOOSE k \in 1..26 : Lower[k] = c)
    ELSE IF c = " " THEN 32 ELSE 48

\* a sorts before b in the default order of Array.prototype.sort.
RECURSIVE sortsBefore(_, _)
sortsBefore(a, b) ==
    IF b = <<>> THEN FALSE
    ELSE IF a = <<>> THEN TRUE
    ELSE IF codeUnit(a[1]) # codeUnit(b[1]) THEN codeUnit(a[1]) < codeUnit(b[1])
    ELSE sortsBefore(Tail(a), Tail(b))

\* Array.from(set).sort()
RECURSIVE sortedTypes(_)
sortedTypes(types) ==
    IF types = {} THEN <<>>
    ELSE LET first == CHOOSE a \in types : \A b \in types \ {a} : sortsBefore(a, b)
         IN <<first>> \o sortedTypes(types \ {first})

\* The 'end' handler of loadProducts: the product types of the kept rows.
loadProductTypes(rows) ==
    LET kept == loadRows(rows)
    IN sortedTypes({kept[i].productType : i \in {j \in 1..Len(kept) :
                                                  kept[j].productType # <<>>}})

-----------------------------------------------------------------------------
\* CSVProductRepository: search.

\* Mutant of relevanceCmp: the price alone decides.
relevanceCmpByPrice(a, b) == getNumericPrice(a) - getNumericPrice(b)

\* The comparator of searchProducts: discounted first, then by price.
relevanceCmp(a, b) ==
    IF hasDiscount(a) /\ ~hasDiscount(b) THEN 0 - 1
    ELSE IF ~hasDiscount(a) /\ hasDiscount(b) THEN 1
    ELSE getNumericPrice(a) - getNumericPrice(b)

\* filteredProducts.sort with that comparator: the stable order, in which an
\* element is preceded by those that compare lower and by the equal ones that
\* stood before it.
sort(s) ==
    LET rank(i) == 1 + Cardinality({j \in 1..Len(s) :
                        \/ relevanceCmp(s[j], s[i]) < 0
                        \/ relevanceCmp(s[j], s[i]) = 0 /\ j < i})
    IN [k \in 1..Len(s) |-> s[CHOOSE i \in 1..Len(s) : rank(i) = k]]

\* Array.prototype.slice(from, to) with 0 <= from.
slice(s, from, to) == SubSeq(s, from + 1, Min(to, Len(s)))

\* Mutant of matchesCriteria: the price bounds are exclusive.
matchesCriteriaInside(p, criteria) ==
    /\ truthyTrimmed(criteria.query)
          => matchesQuery(p, trim(toLowerCase(criteria.query)))
    /\ truthyTrimmed(criteria.productType)
          => toLowerCase(p.productType) = toLowerCase(trim(criteria.productType))
    /\ criteria.hasDiscount # "undefined"
          => hasDiscount(p) = (criteria.hasDiscount = "true")
    /\ criteria.hasVariants # "undefined"
          => hasVariants(p) = (criteria.hasVariants = "true")
    /\ criteria.minPrice # undefinedNum => getNumericPrice(p) > criteria.minPrice
    /\ criteria.maxPrice # undefinedNum => getNumericPrice(p) < criteria.maxPrice

\* The filters of searchProducts, ANDed.
matchesCriteria(p, criteria) ==
    /\ truthyTrimmed(criteria.query)
          => matchesQuery(p, trim(toLowerCase(criteria.query)))
    /\ truthyTrimmed(criteria.productType)
          => toLowerCase(p.productType) = toLowerCase(trim(criteria.productType))
    /\ criteria.hasDiscount # "undefined"
          => hasDiscount(p) = (criteria.hasDiscount = "true")
    /\ criteria.hasVariants # "undefined"
          => hasVariants(p) = (criteria.hasVariants = "true")
    /\ criteria.minPrice # undefinedNum => ~(getNumericPrice(p) < criteria.minPrice)
    /\ criteria.maxPrice # undefinedNum => ~(getNumericPrice(p) > criteria.maxPrice)

\* criteria.limit || 20 and criteria.offset || 0.
DefaultLimit == 20
effectiveLimit(criteria) ==
    IF isNumber(criteria.limit) /\ criteria.limit # 0 THEN criteria.limit ELSE DefaultLimit
effectiveOffset(criteria) ==
    IF isNumber(criteria.offset) /\ criteria.offset # 0 THEN criteria.offset ELSE 0

searchProducts(criteria, store, initialized) ==
    IF ~initialized THEN Throw(<<"Product repository not initialized">>)
    ELSE LET keep(p) == matchesCriteria(p, criteria)
             filteredProducts == sort(SelectSeq(store, keep))
             total == Len(filteredProducts)
             offset == effectiveOffset(criteria)
             limit == effectiveLimit(criteria)
         IN Ok([products |-> slice(filteredProducts, offset, offset + limit),
                total |-> total,
                hasMore |-> offset + limit < total])


-----------------------------------------------------------------------------
\* Numbers of the exchange rate client.  A rate is a fraction [n, d] in lowest
\* terms with d > 0; an amount is an integer or one of undefinedNum, NaN,
\* Infinity; a converted amount is a decimal [whole, e4] with four places.

RECURSIVE gcd(_, _)
gcd(a, b) == IF b = 0 THEN a ELSE gcd(b, a % b)

abs(x) == IF x < 0 THEN 0 - x ELSE x

Rat(n, d) ==
    LET g == gcd(abs(n), abs(d))
        sgn == IF d < 0 THEN 0 - 1 ELSE 1
    IN [n |-> sgn * (n \div g), d |-> sgn * (d \div g)]

\* Mutant of ratDiv: the quotient is taken the other way round.
ratDivInverted(a, b) == Rat(a.d * b.n, a.n * b.d)

ratDiv(a, b) == Rat(a.n * b.d, a.d * b.n)
ratOne == [n |-> 1, d |-> 1]
undefinedRate == [n |-> 0, d |-> 0]

\* `!rate`: undefined or zero.
falsyRate(r) == r = undefinedRate \/ r.n = 0

Dec(whole, e4) == [whole |-> whole, e4 |-> e4]

\* roundToDecimalPlaces(amount * rate, 4) for an amount > 0 and a rate > 0:
\* Math.round of the value scaled by 10^4, then scaled back.
roundToDecimalPlaces(amount, rate) ==
    LET part == (amount % rate.d) * rate.n
        whole == (amount \div rate.d) * rate.n + part \div rate.d
        rem == part % rate.d
        e4 == (2 * rem * 10000 + rate.d) \div (2 * rate.d)
    IN IF e4 = 10000 THEN Dec(whole + 1, 0) ELSE Dec(whole, e4)

\* new CurrencyConversion(data)
CurrencyConversion(data) ==
    [amount |-> IF isNumber(data.amount) THEN data.amount ELSE 0,
     fromCurrency |-> IF isString(data.fromCurrency)
                      THEN toUpperCase(data.fromCurrency) ELSE <<>>,
     toCurrency |-> IF isString(data.toCurrency)
                    THEN toUpperCase(data.toCurrency) ELSE <<>>,
     convertedAmount |-> data.convertedAmount,
     exchangeRate |-> IF falsyRate(data.exchangeRate) THEN Rat(0, 1)
                      ELSE data.exchangeRate,
     source |-> IF data.source = "" THEN "unknown" ELSE data.source]

-----------------------------------------------------------------------------
\* OpenExchangeRatesService.

MaxAmount == 1000000000

NoRates == [c \in {} |-> undefinedRate]
NoEntry == [data |-> undefinedRate, timestamp |-> 0 - 1]

cacheKey(from, to) == from \o <<"-">> \o to

cacheGet(cache, key) == IF key \in DOMAIN cache THEN cache[key] ELSE NoEntry

cacheSet(cache, key, entry) ==
    [k \in DOMAIN cache \cup {key} |-> IF k = key THEN entry ELSE cache[k]]


\* Mutant of cacheFresh: an entry is still served at the moment its TTL ends.
cacheFreshAtExpiry(cached, t) == cached # NoEntry /\ t - cached.timestamp <= cacheTtl

\* The test of the cache lookup: an entry exists and has not outlived the TTL.
cacheFresh(cached, t) == cached # NoEntry /\ t - cached.timestamp < cacheTtl

rateOf(rates, code) == IF code \in DOMAIN rates THEN rates[code] ELSE undefinedRate

\* getExchangeRate up to its first await: the cached rate, or a provider
\* request for the pair.
getExchangeRateLookup(fromCurrency, toCurrency, cache, t) ==
    IF ~isString(fromCurrency) \/ ~isString(toCurrency)
    THEN [kind |-> "throw", rate |-> undefinedRate,
          err |-> <<"Cannot read properties of undefined (reading 'toUpperCase')">>]
    ELSE LET cached == cacheGet(cache, cacheKey(toUpperCase(fromCurrency),
                                                toUpperCase(toCurrency)))
         IN IF cacheFresh(cached, t)
            THEN [kind |-> "cached", rate |-> cached.data, err |-> <<>>]
            ELSE [kind |-> "request", rate |-> undefinedRate, err |-> <<>>]

\* The rate derived from a provider response (the body of the try block).
deriveRate(from, to, http) ==
    IF http.status # "ok" THEN Throw(<<http.status>>)
    ELSE IF ~http.hasRates \/ DOMAIN http.rates = {}
    THEN Throw(<<"No exchange rates returned from API">>)
    ELSE LET fromRate == rateOf(http.rates, from)
             toRate == rateOf(http.rates, to)
             invalid(rate) == <<"Invalid exchange rate calculated: ", ToString(rate)>>
             checked(rate) == IF falsyRate(rate) \/ rate.n <= 0
                              THEN Throw(invalid(rate)) ELSE Ok(rate)
         IN IF from = http.base
            THEN IF falsyRate(toRate)
                 THEN Throw(<<"Exchange rate not found for ">> \o to)
                 ELSE checked(toRate)
            ELSE IF to = http.base
            THEN IF falsyRate(fromRate)
                 THEN Throw(<<"Exchange rate not found for ">> \o from)
                 ELSE checked(ratDiv(ratOne, fromRate))
            ELSE IF falsyRate(fromRate) \/ falsyRate(toRate)
                 THEN Throw(<<"Exchange rates not found for ">>
                            \o (IF falsyRate(fromRate) THEN from ELSE to))
                 ELSE checked(ratDiv(toRate, fromRate))

\* getExchangeRate from the provider's answer on: the rate, or the one error
\* that names the pair.
getExchangeRateResponse(fromCurrency, toCurrency, http) ==
    LET from == toUpperCase(fromCurrency)
        to == toUpperCase(toCurrency)
        r == deriveRate(from, to, http)
    IN IF r.ok THEN r
       ELSE Throw(<<"Failed to get exchange rate from ">> \o from \o <<" to ">>
                  \o to \o <<": ">> \o r.err)

\* Mutant of cacheAfterResponse: a failed request renews the entry it found.
cacheAfterResponseRenewing(cache, fromCurrency, toCurrency, http, t) ==
    LET r == getExchangeRateResponse(fromCurrency, toCurrency, http)
        key == cacheKey(toUpperCase(fromCurrency), toUpperCase(toCurrency))
    IN IF r.ok
       THEN cacheSet(cache, key, [data |-> r.val, timestamp |-> t])
       ELSE IF key \in DOMAIN cache
       THEN cacheSet(cache, key, [data |-> cache[key].data, timestamp |-> t])
       ELSE cache

\* The cache after getExchangeRate has handled the provider's answer at time t.
cacheAfterResponse(cache, fromCurrency, toCurrency, http, t) ==
    LET r == getExchangeRateResponse(fromCurrency, toCurrency, http)
    IN IF r.ok
       THEN cacheSet(cache, cacheKey(toUpperCase(fromCurrency), toUpperCase(toCurrency)),
                     [data |-> r.val, timestamp |-> t])
       ELSE cache

validateConversionRequest(req) ==
    IF ~isNumber(req.amount) \/ req.amount <= 0
    THEN Throw(<<"Amount must be a positive finite number">>)
    ELSE IF req.amount > MaxAmount
    THEN Throw(<<"Amount too large (max: 1,000,000,000)">>)
    ELSE IF ~truthyTrimmed(req.fromCurrency) \/ Len(req.fromCurrency) # 3
    THEN Throw(<<"From currency must be a valid 3-letter currency code">>)
    ELSE IF ~truthyTrimmed(req.toCurrency) \/ Len(req.toCurrency) # 3
    THEN Throw(<<"To currency must be a valid 3-letter currency code">>)
    ELSE Ok(<<>>)

conversionFailed(err) == Throw(<<"Currency conversion failed: ">> \o err)

converted(req, rate) ==
    CurrencyConversion([amount |-> req.amount,
                        fromCurrency |-> toUpperCase(req.fromCurrency),
                        toCurrency |-> toUpperCase(req.toCurrency),
                        convertedAmount |-> roundToDecimalPlaces(req.amount, rate),
                        exchangeRate |-> rate,
                        source |-> "openexchangerates.org"])

\* Mutant of sameCurrency: the codes are compared as they were given.
sameCurrencyAsGiven(req) == req.fromCurrency = req.toCurrency

\* The test of the same-currency shortcut.
sameCurrency(req) == toUpperCase(req.fromCurrency) = toUpperCase(req.toCurrency)

\* convertCurrency up to the provider request: settled ([kind |-> "settled"],
\* with the conversion or the error) or waiting for the provider.
convertCurrencyStart(req, cache, t) ==
    LET v == validateConversionRequest(req)
    IN IF ~v.ok THEN [kind |-> "settled", out |-> conversionFailed(v.err)]
       ELSE IF sameCurrency(req)
       THEN [kind |-> "settled",
             out |-> Ok(CurrencyConversion(
                        [amount |-> req.amount,
                         fromCurrency |-> toUpperCase(req.fromCurrency),
                         toCurrency |-> toUpperCase(req.toCurrency),
                         convertedAmount |-> Dec(req.amount, 0),
                         exchangeRate |-> ratOne,
                         source |-> "direct"]))]
       ELSE LET l == getExchangeRateLookup(req.fromCurrency, req.toCurrency, cache, t)
            IN IF l.kind = "cached"
               THEN [kind |-> "settled", out |-> Ok(converted(req, l.rate))]
               ELSE IF l.kind = "throw"
               THEN [kind |-> "settled", out |-> conversionFailed(l.err)]
               ELSE [kind |-> "request", out |-> Throw(<<>>)]

\* convertCurrency from the provider's answer on.
convertCurrencyFinish(req, http) ==
    LET r == getExchangeRateResponse(req.fromCurrency, req.toCurrency, http)
    IN IF r.ok THEN Ok(converted(req, r.val)) ELSE conversionFailed(r.err)


-----------------------------------------------------------------------------
\* LLMService: tools.  The serialized arguments of a tool call are either text
\* that JSON.parse rejects, the text "null", or the text of an object.

NoData == [undefined |-> TRUE]

ToolExecutionResult(toolCallId, toolName, success, data, error) ==
    [toolCallId |-> toolCallId, toolName |-> toolName, success |-> success,
     data |-> data, error |-> error]


\* Mutant of failed: the error message is left out of the result.
failedWithoutError(toolCallId, toolName, errorMessage) ==
    ToolExecutionResult(toolCallId, toolName, FALSE, NoData, Undefined)

failed(toolCallId, toolName, errorMessage) ==
    ToolExecutionResult(toolCallId, toolName, FALSE, NoData, errorMessage)

JSONparse(text) ==
    IF text.json = "invalid" THEN Throw(<<"Unexpected token in JSON at position 0">>)
    ELSE Ok(text)

\* JSON.stringify: the text of a value, one text per value.
JSONstringify(value) == <<ToString(value)>>

SearchLimit == 2


\* Mutant of searchCriteria: the page comes from the oracle's arguments.
searchCriteriaFromArguments(args) ==
    [query |-> args.query, productType |-> args.productType,
     minPrice |-> args.minPrice, maxPrice |-> args.maxPrice,
     hasDiscount |-> args.hasDiscount, hasVariants |-> "undefined",
     limit |-> args.limit, offset |-> args.offset]

\* The criteria executeSearchProducts builds from the oracle's arguments.
searchCriteria(args) ==
    [query |-> args.query, productType |-> args.productType,
     minPrice |-> args.minPrice, maxPrice |-> args.maxPrice,
     hasDiscount |-> args.hasDiscount, hasVariants |-> "undefined",
     limit |-> SearchLimit, offset |-> 0]

productView(product) ==
    [displayTitle |-> product.displayTitle, productType |-> product.productType,
     price |-> product.price, hasDiscount |-> hasDiscount(product),
     hasVariants |-> hasVariants(product), url |-> product.url,
     summary |-> getSummary(product)]

executeSearchProducts(toolCallId, toolName, args, store, initialized) ==
    IF args.json = "null"
    THEN failed(toolCallId, toolName,
                <<"Cannot read properties of null (reading 'query')">>)
    ELSE LET criteria == searchCriteria(args)
             result == searchProducts(criteria, store, initialized)
         IN IF ~result.ok THEN failed(toolCallId, toolName, result.err)
            ELSE ToolExecutionResult(toolCallId, toolName, TRUE,
                    [products |-> [i \in 1..Len(result.val.products) |->
                                      productView(result.val.products[i])],
                     total |-> result.val.total,
                     searchCriteria |-> criteria],
                    Undefined)

conversionRequest(args) ==
    [amount |-> args.amount, fromCurrency |-> args.fromCurrency,
     toCurrency |-> args.toCurrency]

\* The result executeConvertCurrencies makes of convertCurrency's outcome.
conversionResult(toolCallId, toolName, out) ==
    IF ~out.ok THEN failed(toolCallId, toolName, out.err)
    ELSE ToolExecutionResult(toolCallId, toolName, TRUE,
            [amount |-> out.val.amount, fromCurrency |-> out.val.fromCurrency,
             toCurrency |-> out.val.toCurrency,
             convertedAmount |-> out.val.convertedAmount,
             exchangeRate |-> out.val.exchangeRate],
            Undefined)

\* executeTool up to the provider request.  kind: "settled" with the result,
\* "request" when a conversion waits for the provider, "rejected" when the
\* call throws outside every try block.  searched: the criteria handed to the
\* catalog, if the catalog was called.
executeToolStart(toolCall, store, initialized, cache, t) ==
    LET id == toolCall.id
        name == toolCall.name
        none == failed(id, name, <<>>)
        settled(r) == [kind |-> "settled", result |-> r, searched |-> <<>>]
    IN IF ~toolCall.hasFunction
       THEN [kind |-> "rejected", result |-> none, searched |-> <<>>]
       ELSE LET parsedArgs == JSONparse(toolCall.arguments)
            IN IF ~parsedArgs.ok THEN settled(failed(id, name, parsedArgs.err))
               ELSE IF name = "searchProducts"
               THEN [kind |-> "settled",
                     result |-> executeSearchProducts(id, name, parsedArgs.val,
                                                      store, initialized),
                     searched |-> IF parsedArgs.val.json = "null" THEN <<>>
                                  ELSE <<searchCriteria(parsedArgs.val)>>]
               ELSE IF name = "convertCurrencies"
               THEN IF parsedArgs.val.json = "null"
                    THEN settled(failed(id, name,
                            <<"Cannot read properties of null (reading 'amount')">>))
                    ELSE LET c == convertCurrencyStart(
                                      conversionRequest(parsedArgs.val), cache, t)
                         IN IF c.kind = "settled"
                            THEN settled(conversionResult(id, name, c.out))
                            ELSE [kind |-> "request", result |-> none,
                                  searched |-> <<>>]
               ELSE settled(failed(id, name, <<"Unknown tool: ", name>>))

\* executeTool of a waiting conversion, from the provider's answer on.
executeToolFinish(toolCall, http) ==
    conversionResult(toolCall.id, toolCall.name,
        convertCurrencyFinish(conversionRequest(JSONparse(toolCall.arguments).val), http))

-----------------------------------------------------------------------------
\* LLMService: chat.

SystemPrompt == <<"You are a helpful e-commerce shopping assistant ...">>
ErrorText ==
    <<"I apologize, but I encountered an error while processing your request. Please try again.">>
NoResponseText == <<"I apologize, but I couldn't generate a proper response.">>
NoFinalText ==
    <<"I apologize, but I encountered an issue generating a response. Please try again.">>
SearchFallbackText ==
    <<"I found some products for you, but encountered an issue formatting the response. Please try your request again.">>
ConvertFallbackText ==
    <<"I was able to convert the currency, but encountered an issue formatting the response. Please try your request again.">>

UndefinedId == "<undefined>"
GeneratedId == "chat-<Date.now()>-<uuid>"

generateConversationId == GeneratedId

ChatMessage(role, content, hasToolCalls, tool_calls, tool_call_id, name) ==
    [role |-> role, content |-> content, hasToolCalls |-> hasToolCalls,
     tool_calls |-> tool_calls, tool_call_id |-> tool_call_id, name |-> name]

TextMessage(role, content) == ChatMessage(role, content, FALSE, <<>>, "", "")

prepareMessages(req) ==
    <<TextMessage("system", SystemPrompt)>>
        \o (IF req.hasMessages /\ Len(req.messages) > 0 THEN req.messages ELSE <<>>)
        \o <<TextMessage("user", req.userQuery)>>

\* callOpenAI from the oracle's answer on: the message of the first choice.
callOpenAI(outcome) ==
    IF outcome.kind = "unreachable" THEN Throw(<<"Connection error.">>)
    ELSE IF outcome.kind = "malformed"
    THEN Throw(<<"Cannot read properties of undefined (reading '0')">>)
    ELSE IF outcome.kind = "nochoice"
    THEN Throw(<<"No response choice returned from OpenAI">>)
    ELSE Ok(outcome.message)

\* The messages chat appends after the tools have run.
toolMessage(result) ==
    ChatMessage("tool",
                IF result.success THEN JSONstringify(result.data)
                ELSE <<"Error: ">> \o result.error,
                FALSE, <<>>, result.toolCallId, result.toolName)


\* Mutant of followUp: only the successful executions get a tool message.
followUpSkipsFailures(first, results) ==
    LET isSuccess(r) == r.success
        kept == SelectSeq(results, isSuccess)
    IN <<ChatMessage("assistant", first.content, TRUE, first.tool_calls, "", "")>>
          \o [i \in 1..Len(kept) |-> toolMessage(kept[i])]

followUp(first, results) ==
    <<ChatMessage("assistant", first.content, TRUE, first.tool_calls, "", "")>>
        \o [i \in 1..Len(results) |-> toolMessage(results[i])]

LLMChatResponse(text, id, toolUsed, hasTools, toolCalls, results, finishReason) ==
    [response |-> text, conversationId |-> id, toolUsed |-> toolUsed,
     hasToolCalls |-> hasTools, toolCalls |-> toolCalls,
     hasToolExecutionResults |-> hasTools, toolExecutionResults |-> results,
     finishReason |-> finishReason]

NoResponse == LLMChatResponse(<<>>, "", "", FALSE, <<>>, <<>>, "")

\* The answer of the catch block.
errorAnswer(id) == LLMChatResponse(ErrorText, id, "<undefined>", FALSE, <<>>, <<>>, "stop")


\* Mutant of chatCatch: the answer of the catch block carries the message caught.
chatCatchTellsError(r, id) ==
    IF r.ok THEN r
    ELSE Ok(LLMChatResponse(<<"Error: ">> \o r.err, id, "<undefined>", FALSE, <<>>, <<>>,
                            "stop"))

\* Mutant of chatCatch: the catch block rethrows.
chatCatchRethrows(r, id) == r

\* try { ... } catch of chat: what chat settles with, given what the try block did.
chatCatch(r, id) == IF r.ok THEN r ELSE Ok(errorAnswer(id))

\* The answer without tools.
directAnswer(first, id) ==
    LLMChatResponse(IF truthy(first.content) THEN first.content ELSE NoResponseText,
                    id, "<undefined>", FALSE, <<>>, <<>>, "stop")

\* The text is null, empty or blank.
noUsableText(text) == ~truthy(text) \/ trim(text) = <<>>

fallbackAnswer(text, id, toolType) ==
    LLMChatResponse(text, id, toolType, FALSE, <<>>, <<>>, "tool_calls")

\* The answer after the tools have run and the oracle has answered again.
toolAnswer(first, results, final, id) ==
    LET finalResponse == final.content
        isSuccess(r) == r.success
        successfulTools == SelectSeq(results, isSuccess)
        toolType == IF successfulTools # <<>> THEN successfulTools[1].toolName ELSE ""
    IN IF noUsableText(finalResponse) /\ toolType = "searchProducts"
       THEN fallbackAnswer(SearchFallbackText, id, toolType)
       ELSE IF noUsableText(finalResponse) /\ toolType = "convertCurrencies"
       THEN fallbackAnswer(ConvertFallbackText, id, toolType)
       ELSE LLMChatResponse(IF truthy(finalResponse) THEN finalResponse ELSE NoFinalText,
                            id,
                            IF results # <<>> THEN results[1].toolName ELSE "<undefined>",
                            TRUE, first.tool_calls, results, "tool_calls")


\* Mutant of requestsTools: an empty list of tool calls counts as a request.
requestsToolsWhenListed(first) == first.hasToolCalls

requestsTools(first) == first.hasToolCalls /\ Len(first.tool_calls) > 0


-----------------------------------------------------------------------------
\* Inputs of the model.

RECURSIVE SeqsUpTo(_, _)
SeqsUpTo(S, n) ==
    IF n = 0 THEN {<<>>}
    ELSE LET shorter == SeqsUpTo(S, n - 1)
         IN shorter \cup {Append(q, x) : q \in {r \in shorter : Len(r) = n - 1}, x \in S}

USD == <<"U","S","D">>
EUR == <<"E","U","R">>
GBP == <<"G","B","P">>

Args(json, query, limit, offset, amount, from, to) ==
    [json |-> json, query |-> query, productType |-> Undefined,
     minPrice |-> undefinedNum, maxPrice |-> undefinedNum,
     hasDiscount |-> "undefined", limit |-> limit, offset |-> offset,
     amount |-> amount, fromCurrency |-> from, toCurrency |-> to]

SearchArgs(query, limit, offset) ==
    Args("object", query, limit, offset, undefinedNum, Undefined, Undefined)
ConvertArgs(amount, from, to) ==
    Args("object", Undefined, undefinedNum, undefinedNum, amount, from, to)
InvalidArgs == [SearchArgs(Undefined, undefinedNum, undefinedNum) EXCEPT !.json = "invalid"]
NullArgs == [SearchArgs(Undefined, undefinedNum, undefinedNum) EXCEPT !.json = "null"]

ToolCall(name, arguments) ==
    [id |-> "", hasFunction |-> TRUE, name |-> name, arguments |-> arguments]

\* The tool calls the oracle may request.
ToolCallPool ==
    { ToolCall("searchProducts", SearchArgs(<<"T","V">>, 5, 1)),
      ToolCall("searchProducts", SearchArgs(<<" ","p","a","n">>, undefinedNum, undefinedNum)),
      ToolCall("convertCurrencies", ConvertArgs(350, <<"e","u","r">>, USD)),
      ToolCall("convertCurrencies", ConvertArgs(0, EUR, USD)),
      ToolCall("getWeather", SearchArgs(<<"T","V">>, undefinedNum, undefinedNum)),
      ToolCall("getWeather", InvalidArgs),
      [ToolCall("", NullArgs) EXCEPT !.hasFunction = FALSE] }

\* The oracle numbers the calls of one response.
numbered(calls) == [i \in 1..Len(calls) |-> [calls[i] EXCEPT !.id = ToString(i)]]

ToolCallLists == {numbered(q) : q \in SeqsUpTo(ToolCallPool, MaxToolCalls)}

OracleMessage(content, hasToolCalls, tool_calls) ==
    [defined |-> TRUE, content |-> content, hasToolCalls |-> hasToolCalls,
     tool_calls |-> tool_calls]
UndefinedMessage == [OracleMessage(Null, FALSE, <<>>) EXCEPT !.defined = FALSE]

Contents == {Null, <<>>, <<" ", "\n">>, <<"o","k">>}

OracleFailures ==
    {[kind |-> k, message |-> UndefinedMessage] :
        k \in {"unreachable", "malformed", "nochoice"}}

Answered(message) == [kind |-> "message", message |-> message]

\* What the oracle may answer to the first call and to the second.
FirstOutcomes ==
    OracleFailures \cup {Answered(UndefinedMessage)}
    \cup {Answered(OracleMessage(c, h, <<>>)) : c \in Contents, h \in BOOLEAN}
    \cup {Answered(OracleMessage(c, TRUE, l)) :
            c \in {Null, <<"o","k">>}, l \in ToolCallLists \ {<<>>}}

SecondOutcomes ==
    OracleFailures \cup {Answered(UndefinedMessage)}
    \cup {Answered(OracleMessage(c, FALSE, <<>>)) : c \in Contents}
    \cup {Answered(OracleMessage(<<"o","k">>, TRUE,
                numbered(<<ToolCall("searchProducts", SearchArgs(<<"T","V">>, 5, 1))>>)))}

\* The prior messages a caller may supply.
Hi == TextMessage("user", <<"h","i">>)
Yo == TextMessage("assistant", <<"y","o">>)
PriorLists == {<<>>, <<Hi>>, <<Hi, Yo>>, <<Yo, Hi>>}

ChatRequest(userQuery, id, hasMessages, priorMessages) ==
    [userQuery |-> userQuery, conversationId |-> id, hasMessages |-> hasMessages,
     messages |-> priorMessages]

UserQuery == <<"I am looking for a tv">>

ChatRequests ==
    {ChatRequest(UserQuery, id, FALSE, <<>>) : id \in {UndefinedId, "", "conv-1"}}
    \cup {ChatRequest(UserQuery, "conv-1", TRUE, m) : m \in PriorLists}

Latest(base, rates) == [status |-> "ok", base |-> base, hasRates |-> TRUE, rates |-> rates]

\* What the provider may answer to a latest.json request.
HttpOutcomes ==
    { [status |-> "timeout", base |-> <<>>, hasRates |-> FALSE, rates |-> NoRates],
      Latest(USD, NoRates),
      Latest(USD, (EUR :> Rat(9, 10)) @@ (GBP :> Rat(4, 5))),
      Latest(USD, (EUR :> Rat(3, 4)) @@ (GBP :> Rat(0, 1))) }


-----------------------------------------------------------------------------
\* Initial states.

LoadedProducts == loadRows(CsvRows)

NoCall == [phase |-> "idle", from |-> <<>>, to |-> <<>>]
NoRate == [op |-> "none", client |-> "", rate |-> undefinedRate, err |-> <<>>]

ChatIdle ==
    /\ pc = "idle"
    /\ request = ChatRequest(<<>>, UndefinedId, FALSE, <<>>)
    /\ conversationId = ""
    /\ messages = <<>>
    /\ oracleCalls = <<>>
    /\ initialResponse = UndefinedMessage
    /\ finalChoice = UndefinedMessage
    /\ toolState = <<>>
    /\ toolResults = <<>>
    /\ completionOrder = <<>>
    /\ response = NoResponse
    /\ raised = FALSE
    /\ caught = FALSE

\* this.currenciesCache = null; a stored list is never empty (service line 232).
NullCurrencies == <<>>

\* What a direct call of a catalog operation settled with.
CatalogResult(op, criteria, out, list, total, hasMore, types) ==
    [op |-> op, criteria |-> criteria, ok |-> out.ok, err |-> out.err,
     products |-> list, total |-> total, hasMore |-> hasMore, types |-> types]

NoCriteria ==
    [query |-> Undefined, productType |-> Undefined, minPrice |-> undefinedNum,
     maxPrice |-> undefinedNum, hasDiscount |-> "undefined", hasVariants |-> "undefined",
     limit |-> undefinedNum, offset |-> undefinedNum]

NoCatalogResult == CatalogResult("none", NoCriteria, Ok(<<>>), <<>>, 0, FALSE, <<>>)

RatesIdle ==
    /\ providerRequests = 0
    /\ currenciesCache = NullCurrencies
    /\ currenciesCacheTimestamp = 0
    /\ catalogResult = NoCatalogResult
    /\ rateCalls = [c \in Clients |-> NoCall]
    /\ lastRate = NoRate

\* The catalog before or after its load; the rate cache empty or holding the
\* fresh result of an earlier EUR to USD request.
InitChat ==
    /\ \/ /\ isInitialized = FALSE /\ products = <<>> /\ productTypes = <<>>
          /\ loading = "pending"
       \/ /\ isInitialized = TRUE /\ products = LoadedProducts
          /\ productTypes = loadProductTypes(CsvRows)
          /\ loading = "resolved"
    /\ searchLog = <<>>
    /\ now = 1
    /\ ratesCache \in {NoRates,
                       cacheSet(NoRates, cacheKey(EUR, USD),
                                [data |-> Rat(10, 9), timestamp |-> 0])}
    /\ RatesIdle
    /\ ChatIdle

InitRates ==
    /\ isInitialized = TRUE /\ products = LoadedProducts
    /\ productTypes = loadProductTypes(CsvRows)
    /\ loading = "resolved"
    /\ searchLog = <<>>
    /\ now = 0
    /\ ratesCache = NoRates
    /\ RatesIdle
    /\ ChatIdle

-----------------------------------------------------------------------------
\* LLMService.chat, step by step.

\* chat settles: r is what the try block did.
Settle(r) ==
    LET out == chatCatch(r, conversationId)
    IN /\ pc' = "done"
       /\ caught' = ~r.ok
       /\ raised' = ~out.ok
       /\ response' = IF out.ok THEN out.val ELSE NoResponse

\* chat is called: the messages are prepared and sent to the oracle.
ChatStart(req) ==
    /\ pc = "idle"
    /\ request' = req
    /\ conversationId' = IF req.conversationId \notin {UndefinedId, ""}
                         THEN req.conversationId ELSE generateConversationId
    /\ messages' = prepareMessages(req)
    /\ oracleCalls' = <<prepareMessages(req)>>
    /\ pc' = "oracle1"
    /\ UNCHANGED <<initialResponse, finalChoice, toolState, toolResults, completionOrder,
                   response, raised, caught>>
    /\ UNCHANGED <<catalogVars, catalogResult, currencyVars, searchLog, rateVars>>

\* How executeAllTools leaves the calls once every executeTool has run up to
\* its first wait.
started(calls) ==
    [i \in 1..Len(calls) |->
        executeToolStart(calls[i], products, isInitialized, ratesCache, now)]

RECURSIVE concat(_)
concat(seqs) == IF seqs = <<>> THEN <<>> ELSE Head(seqs) \o concat(Tail(seqs))

\* The first answer of the oracle arrives: chat returns, or starts the tools.
ChatOracle1(outcome) ==
    /\ pc = "oracle1"
    /\ \E r \in {callOpenAI(outcome)} :
          IF ~r.ok THEN
             /\ Settle(r)
             /\ UNCHANGED <<initialResponse, toolState, toolResults, searchLog,
                            providerRequests>>
          ELSE IF ~r.val.defined THEN
             /\ Settle(Throw(<<"Cannot read properties of undefined (reading 'tool_calls')">>))
             /\ UNCHANGED <<initialResponse, toolState, toolResults, searchLog,
                            providerRequests>>
          ELSE IF ~requestsTools(r.val) THEN
             /\ Settle(Ok(directAnswer(r.val, conversationId)))
             /\ initialResponse' = r.val
             /\ UNCHANGED <<toolState, toolResults, searchLog, providerRequests>>
          ELSE \E st \in {started(r.val.tool_calls)} :
                  /\ initialResponse' = r.val
                  /\ toolState' = [i \in DOMAIN st |->
                                      IF st[i].kind = "settled" THEN "resolved"
                                      ELSE IF st[i].kind = "request" THEN "http"
                                      ELSE "rejected"]
                  /\ toolResults' = [i \in DOMAIN st |-> st[i].result]
                  /\ searchLog' = searchLog \o concat([i \in DOMAIN st |-> st[i].searched])
                  /\ providerRequests' = providerRequests
                        + Cardinality({i \in DOMAIN st : st[i].kind = "request"})
                  /\ pc' = "tools"
                  /\ UNCHANGED <<response, raised, caught>>
    /\ UNCHANGED <<request, conversationId, messages, oracleCalls, completionOrder,
                   finalChoice>>
    /\ UNCHANGED <<catalogVars, catalogResult, currencyVars, ratesCache, now, rateCalls, lastRate>>

\* An execution that needed no provider settles.
ToolResolve(i) ==
    /\ pc = "tools"
    /\ i \in DOMAIN toolState /\ toolState[i] = "resolved"
    /\ toolState' = [toolState EXCEPT ![i] = "done"]
    /\ completionOrder' = Append(completionOrder, i)
    /\ UNCHANGED <<pc, request, conversationId, messages, oracleCalls, initialResponse,
                   finalChoice, toolResults, response, raised, caught>>
    /\ UNCHANGED <<catalogVars, catalogResult, currencyVars, searchLog, rateVars>>

\* The provider answers a waiting conversion, which settles.
ToolProvider(i, http) ==
    /\ pc \in {"tools", "done"}
    /\ i \in DOMAIN toolState /\ toolState[i] = "http"
    /\ LET call == initialResponse.tool_calls[i]
           args == JSONparse(call.arguments).val
       IN /\ toolResults' = [toolResults EXCEPT ![i] = executeToolFinish(call, http)]
          /\ ratesCache' = cacheAfterResponse(ratesCache, args.fromCurrency,
                                              args.toCurrency, http, now)
    /\ toolState' = [toolState EXCEPT ![i] = "done"]
    /\ completionOrder' = Append(completionOrder, i)
    /\ UNCHANGED <<pc, request, conversationId, messages, oracleCalls, initialResponse,
                   finalChoice, response, raised, caught>>
    /\ UNCHANGED <<catalogVars, catalogResult, currencyVars, searchLog, now, providerRequests, rateCalls, lastRate>>

\* An executeTool promise rejected: Promise.all rejects and chat catches it.
ToolsReject ==
    /\ pc = "tools"
    /\ \E i \in DOMAIN toolState : toolState[i] = "rejected"
    /\ Settle(Throw(<<"Cannot destructure property 'name' of 'func' as it is undefined.">>))
    /\ UNCHANGED <<request, conversationId, messages, oracleCalls, initialResponse,
                   finalChoice, toolState, toolResults, completionOrder>>
    /\ UNCHANGED <<catalogVars, catalogResult, currencyVars, searchLog, rateVars>>


\* Mutant of ToolsJoin: chat goes on as soon as one execution has settled.
ToolsJoinFirstSettled ==
    /\ pc = "tools"
    /\ \E i \in DOMAIN toolState : toolState[i] = "done"
    /\ \A i \in DOMAIN toolState : toolState[i] # "rejected"
    /\ messages' = messages \o followUp(initialResponse, toolResults)
    /\ oracleCalls' = Append(oracleCalls, messages')
    /\ pc' = "oracle2"
    /\ UNCHANGED <<request, conversationId, initialResponse, finalChoice, toolState,
                   toolResults, completionOrder, response, raised, caught>>
    /\ UNCHANGED <<catalogVars, catalogResult, currencyVars, searchLog, rateVars>>

\* Mutant of ToolsJoin: the results are taken in the order the executions settled.
ToolsJoinInCompletionOrder ==
    /\ pc = "tools"
    /\ \A i \in DOMAIN toolState : toolState[i] = "done"
    /\ messages' = messages \o followUp(initialResponse,
                        [k \in 1..Len(completionOrder) |-> toolResults[completionOrder[k]]])
    /\ oracleCalls' = Append(oracleCalls, messages')
    /\ pc' = "oracle2"
    /\ UNCHANGED <<request, conversationId, initialResponse, finalChoice, toolState,
                   toolResults, completionOrder, response, raised, caught>>
    /\ UNCHANGED <<catalogVars, catalogResult, currencyVars, searchLog, rateVars>>

\* Every execution has settled: the follow-up is appended and sent to the oracle.
ToolsJoin ==
    /\ pc = "tools"
    /\ \A i \in DOMAIN toolState : toolState[i] = "done"
    /\ messages' = messages \o followUp(initialResponse, toolResults)
    /\ oracleCalls' = Append(oracleCalls, messages')
    /\ pc' = "oracle2"
    /\ UNCHANGED <<request, conversationId, initialResponse, finalChoice, toolState,
                   toolResults, completionOrder, response, raised, caught>>
    /\ UNCHANGED <<catalogVars, catalogResult, currencyVars, searchLog, rateVars>>

\* The second answer of the oracle arrives: chat returns.
ChatOracle2(outcome) ==
    /\ pc = "oracle2"
    /\ LET r == callOpenAI(outcome)
       IN IF ~r.ok THEN Settle(r)
          ELSE IF ~r.val.defined
          THEN Settle(Throw(<<"Cannot read properties of undefined (reading 'content')">>))
          ELSE Settle(Ok(toolAnswer(initialResponse, toolResults, r.val, conversationId)))
    /\ finalChoice' = (IF callOpenAI(outcome).ok THEN callOpenAI(outcome).val
                       ELSE finalChoice)
    /\ UNCHANGED <<request, conversationId, messages, oracleCalls, initialResponse,
                   toolState, toolResults, completionOrder>>
    /\ UNCHANGED <<catalogVars, catalogResult, currencyVars, searchLog, rateVars>>

NextChat ==
    \/ \E req \in ChatRequests : ChatStart(req)
    \/ \E outcome \in FirstOutcomes : ChatOracle1(outcome)
    \/ \E i \in 1..MaxToolCalls : ToolResolve(i)
    \/ \E i \in 1..MaxToolCalls, http \in HttpOutcomes : ToolProvider(i, http)
    \/ ToolsReject
    \/ ToolsJoin
    \/ \E outcome \in SecondOutcomes : ChatOracle2(outcome)

SpecChat == InitChat /\ [][NextChat]_vars

-----------------------------------------------------------------------------
\* OpenExchangeRatesService.getExchangeRate called directly, by concurrent callers.

RatePairs == {<<USD, EUR>>, <<<<"u","s","d">>, <<"E","u","r">>>>, <<EUR, GBP>>, <<EUR, USD>>}

\* A caller calls getExchangeRate: it returns the cached rate, or asks the provider.
RateCall(c, from, to) ==
    /\ rateCalls[c].phase = "idle"
    /\ LET l == getExchangeRateLookup(from, to, ratesCache, now)
       IN IF l.kind = "request" THEN
             /\ providerRequests < MaxRequests
             /\ providerRequests' = providerRequests + 1
             /\ rateCalls' = [rateCalls EXCEPT ![c] =
                                [phase |-> "waiting", from |-> from, to |-> to]]
             /\ lastRate' = [op |-> "request", client |-> c, rate |-> undefinedRate,
                             err |-> <<>>]
          ELSE
             /\ lastRate' = [op |-> l.kind, client |-> c, rate |-> l.rate, err |-> l.err]
             /\ UNCHANGED <<providerRequests, rateCalls>>
    /\ UNCHANGED <<ratesCache, now>>
    /\ UNCHANGED <<catalogVars, catalogResult, currencyVars, searchLog, chatVars>>

\* The provider answers: the call caches and returns the rate, or fails.
RateResponse(c, http) ==
    /\ rateCalls[c].phase = "waiting"
    /\ LET r == getExchangeRateResponse(rateCalls[c].from, rateCalls[c].to, http)
       IN lastRate' = [op |-> IF r.ok THEN "fetched" ELSE "failed", client |-> c,
                       rate |-> IF r.ok THEN r.val ELSE undefinedRate, err |-> r.err]
    /\ ratesCache' = cacheAfterResponse(ratesCache, rateCalls[c].from, rateCalls[c].to,
                                        http, now)
    /\ rateCalls' = [rateCalls EXCEPT ![c] = NoCall]
    /\ UNCHANGED <<now, providerRequests>>
    /\ UNCHANGED <<catalogVars, catalogResult, currencyVars, searchLog, chatVars>>

Tick ==
    /\ now < MaxTime
    /\ now' = now + 1
    /\ UNCHANGED <<ratesCache, providerRequests, rateCalls, lastRate>>
    /\ UNCHANGED <<catalogVars, catalogResult, currencyVars, searchLog, chatVars>>

NextRates ==
    \/ \E c \in Clients, p \in RatePairs : RateCall(c, p[1], p[2])
    \/ \E c \in Clients, http \in HttpOutcomes : RateResponse(c, http)
    \/ Tick

SpecRates == InitRates /\ [][NextRates]_vars


-----------------------------------------------------------------------------
\* Properties of LLMService.chat, checked under SpecChat.

calls == initialResponse.tool_calls
suppliedId == request.conversationId \notin {UndefinedId, ""}

\* C1: chat never raises; what it returns has a text, the caller's conversation
\* id when one was supplied (a generated one otherwise) and a terminal status;
\* when an exception reached chat, the text is the fixed apology and the
\* status is 'stop'.
C1_ChatAlwaysAnswers ==
    /\ ~raised
    /\ pc = "done" =>
          /\ isString(response.response)
          /\ response.conversationId =
                (IF suppliedId THEN request.conversationId ELSE GeneratedId)
          /\ response.conversationId # ""
          /\ response.finishReason \in {"stop", "tool_calls"}
          /\ caught => /\ response.response = ErrorText
                       /\ response.finishReason = "stop"

\* An exception of the second oracle call was caught, the caller's id kept.
C1_Witness ==
    /\ pc = "done" /\ caught /\ Len(oracleCalls) = 2
    /\ response.conversationId = "conv-1"
    /\ response.response = ErrorText

\* Every requested execution settled and at least one of them failed.
someToolFailed ==
    /\ pc \in {"tools", "oracle2", "done"}
    /\ toolState # <<>>
    /\ \A i \in DOMAIN toolState : toolState[i] = "done"
    /\ \E i \in DOMAIN toolState : ~toolResults[i].success

\* The tool message of call i in the list of the second oracle call.
toolMessageOf(i) == oracleCalls[2][Len(oracleCalls[1]) + 1 + i]

\* C2, as stated: after a failed tool execution chat returns with status
\* 'tool_calls' and not the fixed error answer.
C2_AsStated ==
    (someToolFailed /\ pc = "done") =>
        /\ response.finishReason = "tool_calls"
        /\ response.response # ErrorText

\* C2, amended: after a failed tool execution the second oracle call is
\* issued with a tool message for every call, the other calls keep their own
\* results, and chat returns with status 'tool_calls' unless the second
\* oracle call itself fails.
C2_ToolFailureContained ==
    someToolFailed =>
        /\ pc \in {"oracle2", "done"} =>
              /\ Len(oracleCalls) = 2
              /\ Len(oracleCalls[2]) = Len(oracleCalls[1]) + 1 + Len(calls)
              /\ \A i \in DOMAIN calls :
                    /\ toolMessageOf(i).role = "tool"
                    /\ toolMessageOf(i).tool_call_id = calls[i].id
                    /\ ~toolResults[i].success =>
                          toolMessageOf(i).content = <<"Error: ">> \o toolResults[i].error
        /\ \A i \in DOMAIN calls :
              (calls[i].name = "searchProducts" /\ calls[i].arguments.json = "object"
                 /\ isInitialized) => toolResults[i].success
        /\ (pc = "done" /\ ~caught) =>
              /\ response.finishReason = "tool_calls"
              /\ response.response # ErrorText

\* A validation failure and a successful search in one turn, answered with
\* status 'tool_calls'.
C2_Witness ==
    /\ someToolFailed /\ pc = "done" /\ ~caught
    /\ response.finishReason = "tool_calls"
    /\ \E i, j \in DOMAIN calls :
          /\ calls[i].name = "convertCurrencies" /\ ~toolResults[i].success
          /\ calls[j].name = "searchProducts" /\ toolResults[j].success

\* C3: the first oracle call gets [system, prior messages in order, user]; the
\* second gets that list, one assistant message with the requested calls, and
\* one tool message per call in request order with the call's id and name,
\* whatever order the executions settled in.
C3_MessageOrder ==
    /\ Len(oracleCalls) >= 1 =>
          oracleCalls[1] =
              <<[role |-> "system", content |-> SystemPrompt, hasToolCalls |-> FALSE,
                 tool_calls |-> <<>>, tool_call_id |-> "", name |-> ""]>>
              \o request.messages
              \o <<[role |-> "user", content |-> request.userQuery,
                    hasToolCalls |-> FALSE, tool_calls |-> <<>>,
                    tool_call_id |-> "", name |-> ""]>>
    /\ Len(oracleCalls) = 2 =>
          /\ Len(oracleCalls[2]) = Len(oracleCalls[1]) + 1 + Len(calls)
          /\ SubSeq(oracleCalls[2], 1, Len(oracleCalls[1])) = oracleCalls[1]
          /\ oracleCalls[2][Len(oracleCalls[1]) + 1] =
                [role |-> "assistant", content |-> initialResponse.content,
                 hasToolCalls |-> TRUE, tool_calls |-> calls,
                 tool_call_id |-> "", name |-> ""]
          /\ \A i \in DOMAIN calls :
                /\ toolMessageOf(i).role = "tool"
                /\ toolMessageOf(i).tool_call_id = calls[i].id
                /\ toolMessageOf(i).name = calls[i].name
                /\ toolMessageOf(i).content =
                      (IF toolResults[i].success
                       THEN <<ToString(toolResults[i].data)>>
                       ELSE <<"Error: ">> \o toolResults[i].error)
    /\ Len(oracleCalls) <= 2

\* Two prior messages were supplied and the second requested call settled
\* before the first.
C3_Witness ==
    /\ Len(oracleCalls) = 2
    /\ request.messages = <<Yo, Hi>>
    /\ completionOrder = <<2, 1>>
    /\ calls[1].name # calls[2].name

\* C4: executeTool returns a result for every tool call, with the call's id
\* and name and either success and a payload or failure and an error string.
C4_ExecuteToolResult ==
    \A i \in DOMAIN toolState :
        calls[i].hasFunction =>
            /\ toolState[i] # "rejected"
            /\ toolState[i] \in {"resolved", "done"} =>
                  LET r == toolResults[i]
                  IN /\ r.toolCallId = calls[i].id
                     /\ r.toolName = calls[i].name
                     /\ \/ r.success /\ r.data # NoData /\ r.error = Undefined
                        \/ ~r.success /\ r.data = NoData /\ isString(r.error)

\* Undecodable arguments and a provider failure gave failed results, beside a
\* successful one.
C4_Witness ==
    /\ Len(toolState) = 2 /\ \A i \in DOMAIN toolState : toolState[i] = "done"
    /\ \E i, j \in DOMAIN calls :
          /\ calls[i].arguments.json = "invalid" /\ ~toolResults[i].success
          /\ calls[j].name = "searchProducts" /\ toolResults[j].success


unknownName(i) ==
    calls[i].hasFunction /\ calls[i].name \notin {"searchProducts", "convertCurrencies"}

\* C5, as stated: a call naming an unknown tool reaches neither the catalog
\* nor the rate client and fails with an error that names the unknown tool,
\* whatever its arguments are.
C5_UnknownToolNamed ==
    \A i \in DOMAIN toolState :
        (unknownName(i) /\ toolState[i] \in {"resolved", "done"}) =>
            /\ ~toolResults[i].success
            /\ \E k \in DOMAIN toolResults[i].error :
                  toolResults[i].error[k] = calls[i].name
            /\ Len(calls) = 1 => searchLog = <<>> /\ providerRequests = 0

answeredWithTools ==
    pc = "done" /\ ~caught /\ Len(oracleCalls) = 2 /\ Len(calls) > 0

\* C6, as stated: an answer of the tool branch has status 'tool_calls', names
\* the first requested tool as toolUsed and carries the requested calls and
\* their results, on every return path.
C6_ToolAnswerComplete ==
    answeredWithTools =>
        /\ response.finishReason = "tool_calls"
        /\ response.toolUsed = calls[1].name
        /\ response.hasToolCalls /\ response.toolCalls = calls
        /\ response.hasToolExecutionResults
        /\ response.toolExecutionResults = toolResults

successful == {i \in DOMAIN toolResults : toolResults[i].success}
firstSuccessful == CHOOSE i \in successful : \A j \in successful : i <= j
blank(text) == text \in {Null, Undefined} \/ \A k \in DOMAIN text : text[k] \in Whitespace

\* C7, as stated: when the tools ran and the second oracle response has no
\* usable text, the returned text is never empty or blank: it is the search
\* acknowledgement or the conversion acknowledgement after the first
\* successful tool, and non-empty when no tool succeeded.
C7_NeverBlankAnswer ==
    answeredWithTools =>
        /\ ~blank(response.response)
        /\ (blank(finalChoice.content) /\ successful # {}) =>
              response.response =
                  (IF toolResults[firstSuccessful].toolName = "searchProducts"
                   THEN SearchFallbackText ELSE ConvertFallbackText)

noToolCalls ==
    /\ pc = "done" /\ ~caught
    /\ initialResponse.defined
    /\ ~initialResponse.hasToolCalls \/ initialResponse.tool_calls = <<>>

noToolsRan ==
    /\ toolState = <<>> /\ searchLog = <<>> /\ providerRequests = 0
    /\ Len(oracleCalls) = 1
    /\ response.finishReason = "stop"
    /\ response.toolUsed = "<undefined>"

\* C8, as stated: a first response without tool calls is answered with that
\* response's text, status 'stop', no tool and no second oracle call.
C8_AsStated ==
    noToolCalls => noToolsRan /\ response.response = initialResponse.content

\* C8, amended: a first response without tool calls is answered with no tool
\* run, no second oracle call, status 'stop', no toolUsed, and that response's
\* text when it is non-empty, the fixed "couldn't generate a proper response"
\* text when it is null or empty.
C8_DirectAnswer ==
    noToolCalls =>
        /\ noToolsRan
        /\ response.response =
              (IF initialResponse.content \in {Null, <<>>}
               THEN NoResponseText ELSE initialResponse.content)

\* An empty list of tool calls with a text, answered directly.
C8_Witness ==
    /\ noToolCalls
    /\ initialResponse.hasToolCalls /\ initialResponse.tool_calls = <<>>
    /\ response.response = <<"o", "k">>

matching(criteria) ==
    Cardinality({k \in DOMAIN products : matchesCriteria(products[k], criteria)})

\* C9: every catalog search of the searchProducts tool has limit 2 and offset
\* 0, so a successful result holds at most 2 products, and exactly 2 when at
\* least 2 products of the catalog match.
C9_SearchPageOfTwo ==
    /\ \A k \in DOMAIN searchLog : searchLog[k].limit = 2 /\ searchLog[k].offset = 0
    /\ \A i \in DOMAIN toolResults :
          (calls[i].hasFunction /\ calls[i].name = "searchProducts"
             /\ toolResults[i].success) =>
              LET found == Len(toolResults[i].data.products)
                  n == matching(toolResults[i].data.searchCriteria)
              IN /\ found <= 2
                 /\ n >= 2 => found = 2
                 /\ n < 2 => found = n

\* The oracle asked for 5 products from offset 1; 3 products match and the
\* result holds the first 2 by relevance, the two discounted ones.
C9_Witness ==
    \E i \in DOMAIN toolResults :
        /\ calls[i].hasFunction /\ calls[i].name = "searchProducts"
        /\ calls[i].arguments.limit = 5 /\ calls[i].arguments.offset = 1
        /\ toolResults[i].success
        /\ toolResults[i].data.total = 3
        /\ Len(toolResults[i].data.products) = 2
        /\ toolResults[i].data.products[1].displayTitle = products[2].displayTitle
        /\ toolResults[i].data.products[2].displayTitle = products[4].displayTitle

-----------------------------------------------------------------------------
\* Properties of OpenExchangeRatesService.getExchangeRate, checked under SpecRates.

keyOf(from, to) == toUpperCase(from) \o <<"-">> \o toUpperCase(to)
withinTtl(k) == k \in DOMAIN ratesCache /\ now - ratesCache[k].timestamp < cacheTtl
expired(k) == k \in DOMAIN ratesCache /\ now - ratesCache[k].timestamp >= cacheTtl

\* C10: a getExchangeRate call for a pair whose cached entry is within the TTL
\* issues no provider request, leaves the cache unchanged and returns the
\* cached rate; a call after the TTL issues a new provider request, and the
\* success of a request overwrites the entry with the new rate and timestamp.
C10_CacheWithinTtl ==
    [][ \A c \in Clients :
          /\ \A p \in RatePairs :
                RateCall(c, p[1], p[2]) =>
                    /\ withinTtl(keyOf(p[1], p[2])) =>
                          /\ providerRequests' = providerRequests
                          /\ ratesCache' = ratesCache
                          /\ lastRate'.op = "cached"
                          /\ lastRate'.rate = ratesCache[keyOf(p[1], p[2])].data
                    /\ expired(keyOf(p[1], p[2])) =>
                          /\ providerRequests' = providerRequests + 1
                          /\ rateCalls'[c].phase = "waiting"
                          /\ lastRate'.op = "request"
          /\ \A http \in HttpOutcomes :
                (RateResponse(c, http) /\ lastRate'.op = "fetched") =>
                    ratesCache'[keyOf(rateCalls[c].from, rateCalls[c].to)] =
                        [data |-> lastRate'.rate, timestamp |-> now]
      ]_vars

\* A rate was served from an entry that a request after the expiry of an
\* earlier entry had overwritten.
C10_Witness ==
    /\ lastRate.op = "cached"
    /\ providerRequests = 2
    /\ \E k \in DOMAIN ratesCache :
          /\ ratesCache[k].timestamp >= cacheTtl
          /\ ratesCache[k].data = lastRate.rate
          /\ now > ratesCache[k].timestamp

-----------------------------------------------------------------------------
\* OpenExchangeRatesService as one caller uses it: getExchangeRate with any
\* codes and isAvailable, against a provider that may also answer with a
\* negative rate.

Caller == "a"

\* isAvailable up to the provider request: true from a served rate, false
\* from a throw, or the request it waits for.
isAvailableStart(cache, t) ==
    LET l == getExchangeRateLookup(USD, EUR, cache, t)
    IN IF l.kind = "request" THEN "request"
       ELSE IF l.kind = "cached" THEN "true" ELSE "false"

\* isAvailable from the provider's answer on.
isAvailableFinish(http) ==
    IF getExchangeRateResponse(USD, EUR, http).ok THEN "true" ELSE "false"

CodePairs ==
    RatePairs \cup {<<USD, USD>>, <<GBP, EUR>>, <<<<"U","S">>, EUR>>,
                    <<EUR, <<"U","S","D","X">>>>, <<Undefined, EUR>>, <<EUR, <<>>>>}

ProviderOutcomes ==
    HttpOutcomes \cup
    { [status |-> "Network Error", base |-> <<>>, hasRates |-> FALSE, rates |-> NoRates],
      Latest(USD, (EUR :> Rat(0 - 1, 2)) @@ (GBP :> Rat(4, 5))),
      Latest(USD, (USD :> Rat(1, 1)) @@ (EUR :> Rat(9, 10))),
      Latest(EUR, (USD :> Rat(10, 9)) @@ (GBP :> Rat(8, 9))),
      Latest(USD, (<<"U","S">> :> Rat(1, 2)) @@ (EUR :> Rat(9, 10))) }

\* The caller calls isAvailable.
AvailableCall ==
    /\ rateCalls[Caller].phase = "idle"
    /\ \E a \in {isAvailableStart(ratesCache, now)} :
          IF a = "request" THEN
             /\ providerRequests < MaxRequests
             /\ providerRequests' = providerRequests + 1
             /\ rateCalls' = [rateCalls EXCEPT ![Caller] =
                                [phase |-> "probing", from |-> USD, to |-> EUR]]
             /\ lastRate' = [op |-> "probe", client |-> Caller, rate |-> undefinedRate,
                             err |-> <<>>]
          ELSE
             /\ lastRate' = [op |-> "isAvailable", client |-> Caller,
                             rate |-> undefinedRate, err |-> <<a>>]
             /\ UNCHANGED <<providerRequests, rateCalls>>
    /\ UNCHANGED <<ratesCache, now>>
    /\ UNCHANGED <<catalogVars, catalogResult, currencyVars, searchLog, chatVars>>

\* The provider answers the request of isAvailable, which returns.
AvailableResponse(http) ==
    /\ rateCalls[Caller].phase = "probing"
    /\ lastRate' = [op |-> "isAvailable", client |-> Caller, rate |-> undefinedRate,
                    err |-> <<isAvailableFinish(http)>>]
    /\ ratesCache' = cacheAfterResponse(ratesCache, USD, EUR, http, now)
    /\ rateCalls' = [rateCalls EXCEPT ![Caller] = NoCall]
    /\ UNCHANGED <<now, providerRequests>>
    /\ UNCHANGED <<catalogVars, catalogResult, currencyVars, searchLog, chatVars>>

NextClient ==
    \/ \E p \in CodePairs : RateCall(Caller, p[1], p[2])
    \/ \E http \in ProviderOutcomes : RateResponse(Caller, http)
    \/ AvailableCall
    \/ \E http \in ProviderOutcomes : AvailableResponse(http)
    \/ Tick

SpecClient == InitRates /\ [][NextClient]_vars

badCode(code) == ~isString(code) \/ Len(code) # 3

\* C11, as stated: getExchangeRate with a missing code or a code that is not 3
\* characters long fails, issues no provider request and leaves the cache as
\* it is.
C11_CodesValidated ==
    [][ \A p \in CodePairs :
          (RateCall(Caller, p[1], p[2]) /\ (badCode(p[1]) \/ badCode(p[2]))) =>
              /\ lastRate'.op = "throw"
              /\ providerRequests' = providerRequests
              /\ ratesCache' = ratesCache
      ]_vars

\* The rates of a provider response that the pair needs, and whether the
\* response holds them and they give a positive rate.
needed(from, to, http) ==
    IF from = http.base THEN {to} ELSE IF to = http.base THEN {from} ELSE {from, to}

answersPair(from, to, http) ==
    /\ http.status = "ok" /\ http.hasRates
    /\ \A code \in needed(from, to, http) :
          code \in DOMAIN http.rates /\ http.rates[code].n # 0
    /\ \A code \in needed(from, to, http) : http.rates[code].d > 0
    /\ IF from # http.base /\ to # http.base
       THEN http.rates[from].n * http.rates[to].n > 0
       ELSE \A code \in needed(from, to, http) : http.rates[code].n > 0

\* C12, as stated: every isAvailable call issues a provider request for USD to
\* EUR, and answers true exactly when that request yielded a valid rate,
\* false otherwise.
C12_LiveProbe ==
    [][ /\ AvailableCall =>
              /\ providerRequests' = providerRequests + 1
              /\ rateCalls'[Caller] = [phase |-> "probing", from |-> USD, to |-> EUR]
        /\ \A http \in ProviderOutcomes :
              AvailableResponse(http) =>
                  /\ lastRate'.op = "isAvailable"
                  /\ lastRate'.err \in {<<"true">>, <<"false">>}
                  /\ lastRate'.err = <<"true">> <=> answersPair(USD, EUR, http)
      ]_vars

\* C13: on a cache miss, a provider response with base b and rates r gives
\* getExchangeRate(from, to) the rate r[to] if from = b, 1 / r[from] if to = b
\* and r[to] / r[from] otherwise; the call fails if a needed rate is missing
\* or the rate is not positive.
C13_RateDerivation ==
    [][ \A http \in ProviderOutcomes :
          RateResponse(Caller, http) =>
              LET from == toUpperCase(rateCalls[Caller].from)
                  to == toUpperCase(rateCalls[Caller].to)
                  r == http.rates
                  rate == lastRate'.rate
              IN IF answersPair(from, to, http)
                 THEN /\ lastRate'.op = "fetched"
                      /\ rate.d > 0
                      /\ IF from = http.base THEN rate.n * r[to].d = r[to].n * rate.d
                         ELSE IF to = http.base THEN rate.n * r[from].n = rate.d * r[from].d
                         ELSE rate.n * r[to].d * r[from].n = rate.d * r[to].n * r[from].d
                 ELSE lastRate'.op = "failed" /\ ratesCache' = ratesCache
      ]_vars

\* With base USD and rates EUR 0.9 and GBP 0.8, the rate from EUR to GBP
\* was fetched: 0.8 / 0.9.
C13_Witness ==
    /\ lastRate.op = "fetched"
    /\ lastRate.rate = [n |-> 8, d |-> 9]
    /\ <<"E","U","R","-","G","B","P">> \in DOMAIN ratesCache
    /\ providerRequests = 1

-----------------------------------------------------------------------------
\* OpenExchangeRatesService.convertCurrency, called directly by one caller.

ConversionRequest(amount, from, to) ==
    [amount |-> amount, fromCurrency |-> from, toCurrency |-> to]

Amounts == {undefinedNum, NaN, Infinity, 0, 0 - 5, 350, MaxAmount, MaxAmount + 1}

ConversionPairs ==
    { <<USD, USD>>, <<<<"u","s","d">>, USD>>, <<EUR, USD>>, <<<<"e","u","r">>, GBP>>,
      <<<<"u","$","d">>, <<"U","$","D">>>>, <<<<"U","S">>, EUR>>,
      <<Undefined, USD>>, <<<<" "," "," ">>, <<" "," "," ">>>>,
      <<EUR, <<"G","B","P","X">>>> }

ConversionRequests ==
    {ConversionRequest(a, p[1], p[2]) : a \in Amounts, p \in ConversionPairs}

NoConversion == CurrencyConversion([amount |-> 0, fromCurrency |-> <<>>,
                                    toCurrency |-> <<>>, convertedAmount |-> Dec(0, 0),
                                    exchangeRate |-> undefinedRate, source |-> ""])

\* What convertCurrency settled with.
Converted(out) ==
    [op |-> IF out.ok THEN "converted" ELSE "rejected", client |-> Caller,
     rate |-> undefinedRate, err |-> out.err,
     conversion |-> IF out.ok THEN out.val ELSE NoConversion]

\* The caller calls convertCurrency: it settles, or asks the provider.
ConvertCall(req) ==
    /\ rateCalls[Caller].phase = "idle"
    /\ \E c \in {convertCurrencyStart(req, ratesCache, now)} :
          IF c.kind = "request" THEN
             /\ providerRequests < MaxRequests
             /\ providerRequests' = providerRequests + 1
             /\ rateCalls' = [rateCalls EXCEPT ![Caller] =
                                [phase |-> "converting", from |-> req.fromCurrency,
                                 to |-> req.toCurrency, amount |-> req.amount]]
             /\ lastRate' = [op |-> "request", client |-> Caller,
                             rate |-> undefinedRate, err |-> <<>>]
          ELSE
             /\ lastRate' = Converted(c.out)
             /\ UNCHANGED <<providerRequests, rateCalls>>
    /\ UNCHANGED <<ratesCache, now>>
    /\ UNCHANGED <<catalogVars, catalogResult, currencyVars, searchLog, chatVars>>

\* The provider answers the rate request of a conversion, which settles.
ConvertResponse(http) ==
    /\ rateCalls[Caller].phase = "converting"
    /\ LET call == rateCalls[Caller]
           req == ConversionRequest(call.amount, call.from, call.to)
       IN /\ lastRate' = Converted(convertCurrencyFinish(req, http))
          /\ ratesCache' = cacheAfterResponse(ratesCache, call.from, call.to, http, now)
    /\ rateCalls' = [rateCalls EXCEPT ![Caller] = NoCall]
    /\ UNCHANGED <<now, providerRequests>>
    /\ UNCHANGED <<catalogVars, catalogResult, currencyVars, searchLog, chatVars>>

NextConvert ==
    \/ \E req \in ConversionRequests : ConvertCall(req)
    \/ \E http \in HttpOutcomes : ConvertResponse(http)
    \/ Tick

SpecConvert == InitRates /\ [][NextConvert]_vars

goodAmount(a) == a \notin {undefinedNum, NaN, Infinity} /\ a > 0 /\ a <= 1000000000
threeChars(code) ==
    /\ code \notin {Undefined, Null} /\ Len(code) = 3
    /\ \E k \in 1..3 : code[k] \notin Whitespace
letters == {Lower[k] : k \in 1..26} \cup {Upper[k] : k \in 1..26}
threeLetters(code) ==
    code \notin {Undefined, Null} /\ Len(code) = 3 /\ \A k \in 1..3 : code[k] \in letters
threeUpperCase(code) ==
    Len(code) = 3 /\ \A k \in 1..3 : code[k] \in {Upper[j] : j \in 1..26}

\* C14: a conversion that validation accepts and whose codes are equal
\* ignoring case returns the amount unchanged, rate 1 and source 'direct',
\* issues no provider request and leaves the rate cache as it is.
C14_SameCurrencyDirect ==
    [][ \A req \in ConversionRequests :
          ( /\ ConvertCall(req)
            /\ goodAmount(req.amount)
            /\ threeChars(req.fromCurrency) /\ threeChars(req.toCurrency)
            /\ toLowerCase(req.fromCurrency) = toLowerCase(req.toCurrency) ) =>
              /\ lastRate'.op = "converted"
              /\ lastRate'.conversion.amount = req.amount
              /\ lastRate'.conversion.convertedAmount = [whole |-> req.amount, e4 |-> 0]
              /\ lastRate'.conversion.exchangeRate = [n |-> 1, d |-> 1]
              /\ lastRate'.conversion.source = "direct"
              /\ providerRequests' = providerRequests
              /\ ratesCache' = ratesCache
              /\ rateCalls' = rateCalls
      ]_vars

\* 'usd' was converted to 'USD' directly while the cache held a rate and no
\* request had gone to the provider for it.
C14_Witness ==
    /\ lastRate.op = "converted"
    /\ lastRate.conversion.source = "direct"
    /\ lastRate.conversion.amount = MaxAmount
    /\ lastRate.conversion.fromCurrency = USD
    /\ ratesCache # NoRates
    /\ providerRequests = 1

\* C15, as stated: convertCurrency fails without a provider request when the
\* amount is not a positive finite number of at most 1,000,000,000 or when a
\* code is not a 3-letter code, and an amount of exactly 1,000,000,000 is
\* accepted.
C15_RequestValidated ==
    [][ \A req \in ConversionRequests :
          ConvertCall(req) =>
            /\ ( \/ ~goodAmount(req.amount)
                 \/ ~threeLetters(req.fromCurrency)
                 \/ ~threeLetters(req.toCurrency) ) =>
                    /\ lastRate'.op = "rejected"
                    /\ providerRequests' = providerRequests
            /\ ( /\ req.amount = 1000000000
                 /\ threeLetters(req.fromCurrency)
                 /\ threeLetters(req.toCurrency) ) =>
                    lastRate'.op \in {"converted", "request"}
      ]_vars

\* C16, as stated: every conversion that convertCurrency returns has a
\* non-negative amount and converted amount, a positive finite rate, and two
\* codes of exactly 3 uppercase letters.
C16_ConversionInvariants ==
    lastRate.op = "converted" =>
        /\ lastRate.conversion.amount >= 0
        /\ lastRate.conversion.convertedAmount.whole >= 0
        /\ lastRate.conversion.convertedAmount.e4 >= 0
        /\ lastRate.conversion.exchangeRate.n > 0
        /\ lastRate.conversion.exchangeRate.d > 0
        /\ threeUpperCase(lastRate.conversion.fromCurrency)
        /\ threeUpperCase(lastRate.conversion.toCurrency)

-----------------------------------------------------------------------------
\* OpenExchangeRatesService: the supported currencies, as one caller uses them.

CurrencyInfo(code, name, symbol) == [code |-> code, name |-> name, symbol |-> symbol]

JPY == <<"J","P","Y">>

\* The symbols table of getCurrencySymbol, for the codes of the model.
getCurrencySymbol(code) ==
    LET c == toUpperCase(code)
    IN IF c = USD THEN <<"$">>
       ELSE IF c = EUR THEN <<"€">>
       ELSE IF c = GBP THEN <<"£">>
       ELSE IF c = JPY THEN <<"¥">>
       ELSE Undefined

getFallbackCurrencies ==
    << CurrencyInfo(USD, <<"US Dollar">>, <<"$">>),
       CurrencyInfo(EUR, <<"Euro">>, <<"€">>),
       CurrencyInfo(GBP, <<"British Pound">>, <<"£">>),
       CurrencyInfo(JPY, <<"Japanese Yen">>, <<"¥">>),
       CurrencyInfo(<<"C","A","D">>, <<"Canadian Dollar">>, <<"C$">>),
       CurrencyInfo(<<"A","U","D">>, <<"Australian Dollar">>, <<"A$">>),
       CurrencyInfo(<<"C","H","F">>, <<"Swiss Franc">>, <<"CHF">>),
       CurrencyInfo(<<"C","N","Y">>, <<"Chinese Yuan">>, <<"¥">>),
       CurrencyInfo(<<"I","N","R">>, <<"Indian Rupee">>, <<"₹">>),
       CurrencyInfo(<<"K","R","W">>, <<"South Korean Won">>, <<"₩">>),
       CurrencyInfo(<<"B","R","L">>, <<"Brazilian Real">>, <<"R$">>),
       CurrencyInfo(<<"M","X","N">>, <<"Mexican Peso">>, <<"$">>),
       CurrencyInfo(<<"R","U","B">>, <<"Russian Ruble">>, <<"₽">>),
       CurrencyInfo(<<"Z","A","R">>, <<"South African Rand">>, <<"R">>),
       CurrencyInfo(<<"S","G","D">>, <<"Singapore Dollar">>, <<"S$">>),
       CurrencyInfo(<<"H","K","D">>, <<"Hong Kong Dollar">>, <<"HK$">>),
       CurrencyInfo(<<"N","Z","D">>, <<"New Zealand Dollar">>, <<"NZ$">>),
       CurrencyInfo(<<"S","E","K">>, <<"Swedish Krona">>, <<"kr">>),
       CurrencyInfo(<<"N","O","K">>, <<"Norwegian Krone">>, <<"kr">>),
       CurrencyInfo(<<"D","K","K">>, <<"Danish Krone">>, <<"kr">>) >>

commonCurrencies ==
    { USD, EUR, GBP, JPY, <<"C","A","D">>, <<"A","U","D">>, <<"C","H","F">>,
      <<"C","N","Y">>, <<"I","N","R">>, <<"K","R","W">> }

\* An answer to a currencies.json request: entries are the code and name pairs
\* of response.data, in order.
Currencies(entries) == [status |-> "ok", hasData |-> TRUE, data |-> entries]

CurrencyOutcomes ==
    { [status |-> "timeout", hasData |-> FALSE, data |-> <<>>],
      [status |-> "error", hasData |-> FALSE, data |-> <<>>],
      [status |-> "ok", hasData |-> FALSE, data |-> <<>>],
      Currencies(<<>>),
      Currencies(<< [code |-> USD, name |-> <<"United States Dollar">>],
                    [code |-> EUR, name |-> <<"Euro">>] >>),
      Currencies(<< [code |-> <<"g","b","p">>, name |-> Null] >>) }

\* Object.entries(response.data || {}).map(...)
currenciesOf(http) ==
    LET entries == IF http.hasData THEN http.data ELSE <<>>
    IN [i \in 1..Len(entries) |->
          CurrencyInfo(toUpperCase(entries[i].code),
                       IF truthy(entries[i].name) THEN entries[i].name
                       ELSE entries[i].code,
                       getCurrencySymbol(entries[i].code))]

\* The request of getSupportedCurrencies yielded a list to cache.
fetched(http) == http.status = "ok" /\ Len(currenciesOf(http)) # 0

\* getSupportedCurrencies before its request: the cached list, or a request.
getSupportedCurrenciesStart(cache, timestamp, t) ==
    IF cache # NullCurrencies /\ t - timestamp < cacheTtl
    THEN [kind |-> "cached", list |-> cache]
    ELSE [kind |-> "request", list |-> <<>>]

\* getSupportedCurrencies after its request: the fetched list, or the fallback.
getSupportedCurrenciesFinish(http) ==
    IF fetched(http) THEN Ok(currenciesOf(http)) ELSE Ok(getFallbackCurrencies)

\* Mutant of currenciesCacheAfter: the fallback list is cached as well.
currenciesCacheWithFallback(cache, http) == getSupportedCurrenciesFinish(http).val

\* this.currenciesCache after the request.
currenciesCacheAfter(cache, http) == IF fetched(http) THEN currenciesOf(http) ELSE cache

\* Mutant of currenciesTimestampAfter: the timestamp of the earlier list is kept.
currenciesTimestampKept(timestamp, http, t) == timestamp

\* this.currenciesCacheTimestamp after the request.
currenciesTimestampAfter(timestamp, http, t) == IF fetched(http) THEN t ELSE timestamp

\* Mutant of includesCode: the code is compared as it was given.
includesCodeAsGiven(list, currencyCode) ==
    \E i \in 1..Len(list) : list[i].code = currencyCode

\* currencies.some((c) => c.code === currencyCode.toUpperCase())
includesCode(list, currencyCode) ==
    \E i \in 1..Len(list) : list[i].code = toUpperCase(currencyCode)

\* isCurrencySupported once getSupportedCurrencies has settled with r.
isCurrencySupportedFinish(currencyCode, r) ==
    IF r.ok THEN includesCode(r.val, currencyCode)
    ELSE toUpperCase(currencyCode) \in commonCurrencies

\* isCurrencySupported up to the request of getSupportedCurrencies.
isCurrencySupportedStart(currencyCode, cache, timestamp, t) ==
    IF ~truthyTrimmed(currencyCode) \/ Len(currencyCode) # 3
    THEN [kind |-> "settled", result |-> FALSE]
    ELSE LET c == getSupportedCurrenciesStart(cache, timestamp, t)
         IN IF c.kind = "request" THEN [kind |-> "request", result |-> FALSE]
            ELSE [kind |-> "settled",
                  result |-> isCurrencySupportedFinish(currencyCode, Ok(c.list))]

CurrencyCodes ==
    { USD, <<"u","s","d">>, GBP, JPY, <<"X","X","X">>, <<"U","S">>, Undefined,
      <<" "," "," ">>, <<"U","S","D","X">> }

\* What getSupportedCurrencies returned.
Listed(list, served) ==
    [op |-> "currencies", client |-> Caller, rate |-> undefinedRate, err |-> <<>>,
     currencies |-> list, served |-> served]

\* What isCurrencySupported returned.
Supported(currencyCode, result) ==
    [op |-> "isCurrencySupported", client |-> Caller, rate |-> undefinedRate,
     err |-> <<>>, code |-> currencyCode, result |-> result]

Requested ==
    [op |-> "request", client |-> Caller, rate |-> undefinedRate, err |-> <<>>]

\* The caller calls getSupportedCurrencies.
CurrenciesCall ==
    /\ rateCalls[Caller].phase = "idle"
    /\ \E c \in {getSupportedCurrenciesStart(currenciesCache, currenciesCacheTimestamp, now)} :
          IF c.kind = "request" THEN
             /\ providerRequests < MaxRequests
             /\ providerRequests' = providerRequests + 1
             /\ rateCalls' = [rateCalls EXCEPT ![Caller] =
                                [phase |-> "currencies", from |-> <<>>, to |-> <<>>]]
             /\ lastRate' = Requested
          ELSE
             /\ lastRate' = Listed(c.list, "cache")
             /\ UNCHANGED <<providerRequests, rateCalls>>
    /\ UNCHANGED <<ratesCache, now, currencyVars>>
    /\ UNCHANGED <<catalogVars, catalogResult, searchLog, chatVars>>

\* The provider answers the request of getSupportedCurrencies, which returns.
CurrenciesResponse(http) ==
    /\ rateCalls[Caller].phase = "currencies"
    /\ lastRate' = Listed(getSupportedCurrenciesFinish(http).val,
                          IF fetched(http) THEN "provider" ELSE "fallback")
    /\ currenciesCache' = currenciesCacheAfter(currenciesCache, http)
    /\ currenciesCacheTimestamp' = currenciesTimestampAfter(currenciesCacheTimestamp, http, now)
    /\ rateCalls' = [rateCalls EXCEPT ![Caller] = NoCall]
    /\ UNCHANGED <<ratesCache, now, providerRequests>>
    /\ UNCHANGED <<catalogVars, catalogResult, searchLog, chatVars>>

\* The caller calls isCurrencySupported.
SupportedCall(currencyCode) ==
    /\ rateCalls[Caller].phase = "idle"
    /\ \E c \in {isCurrencySupportedStart(currencyCode, currenciesCache,
                                          currenciesCacheTimestamp, now)} :
          IF c.kind = "request" THEN
             /\ providerRequests < MaxRequests
             /\ providerRequests' = providerRequests + 1
             /\ rateCalls' = [rateCalls EXCEPT ![Caller] =
                                [phase |-> "supported", from |-> currencyCode, to |-> <<>>]]
             /\ lastRate' = Requested
          ELSE
             /\ lastRate' = Supported(currencyCode, c.result)
             /\ UNCHANGED <<providerRequests, rateCalls>>
    /\ UNCHANGED <<ratesCache, now, currencyVars>>
    /\ UNCHANGED <<catalogVars, catalogResult, searchLog, chatVars>>

\* The provider answers the request made for isCurrencySupported, which returns.
SupportedResponse(http) ==
    /\ rateCalls[Caller].phase = "supported"
    /\ lastRate' = Supported(rateCalls[Caller].from,
                             isCurrencySupportedFinish(rateCalls[Caller].from,
                                                       getSupportedCurrenciesFinish(http)))
    /\ currenciesCache' = currenciesCacheAfter(currenciesCache, http)
    /\ currenciesCacheTimestamp' = currenciesTimestampAfter(currenciesCacheTimestamp, http, now)
    /\ rateCalls' = [rateCalls EXCEPT ![Caller] = NoCall]
    /\ UNCHANGED <<ratesCache, now, providerRequests>>
    /\ UNCHANGED <<catalogVars, catalogResult, searchLog, chatVars>>

NextCurrencies ==
    \/ CurrenciesCall
    \/ \E http \in CurrencyOutcomes : CurrenciesResponse(http)
    \/ \E code \in CurrencyCodes : SupportedCall(code)
    \/ \E http \in CurrencyOutcomes : SupportedResponse(http)
    \/ Tick

SpecCurrencies == InitRates /\ [][NextCurrencies]_vars

fallbackCodes ==
    << USD, EUR, GBP, JPY, <<"C","A","D">>, <<"A","U","D">>, <<"C","H","F">>,
       <<"C","N","Y">>, <<"I","N","R">>, <<"K","R","W">>, <<"B","R","L">>,
       <<"M","X","N">>, <<"R","U","B">>, <<"Z","A","R">>, <<"S","G","D">>,
       <<"H","K","D">>, <<"N","Z","D">>, <<"S","E","K">>, <<"N","O","K">>,
       <<"D","K","K">> >>

codesOf(list) == [i \in 1..Len(list) |-> list[i].code]

\* The currency-list fetch failed: no answer, or an answer without entries.
fetchFailed(http) == http.status # "ok" \/ ~http.hasData \/ http.data = <<>>

\* C17: when the currency-list fetch fails, getSupportedCurrencies returns the
\* fixed fallback list and leaves the cached list and its timestamp as they
\* were, so the call after it issues a new provider request; a fetched list
\* is served from the cache without a request while now - timestamp < TTL.
C17_FallbackNotCached ==
    [][ /\ \A http \in CurrencyOutcomes :
             (CurrenciesResponse(http) /\ fetchFailed(http)) =>
                /\ lastRate'.op = "currencies"
                /\ codesOf(lastRate'.currencies) = fallbackCodes
                /\ currenciesCache' = currenciesCache
                /\ currenciesCacheTimestamp' = currenciesCacheTimestamp
        /\ ( /\ CurrenciesCall
             /\ lastRate.op = "currencies" /\ lastRate.served = "fallback" ) =>
                /\ providerRequests' = providerRequests + 1
                /\ lastRate'.op = "request"
        /\ \A http \in CurrencyOutcomes :
             (CurrenciesResponse(http) /\ ~fetchFailed(http)) =>
                /\ currenciesCache' = lastRate'.currencies
                /\ currenciesCacheTimestamp' = now
        /\ ( /\ CurrenciesCall
             /\ currenciesCache # <<>>
             /\ now - currenciesCacheTimestamp < cacheTtl ) =>
                /\ lastRate'.op = "currencies"
                /\ lastRate'.currencies = currenciesCache
                /\ providerRequests' = providerRequests
      ]_vars

\* A fetched list had expired, the next fetch failed, and the call returned
\* the fallback list while the expired list stayed in the cache.
C17_Witness ==
    /\ lastRate.op = "currencies"
    /\ lastRate.served = "fallback"
    /\ Len(lastRate.currencies) = 20
    /\ currenciesCache # <<>>
    /\ now - currenciesCacheTimestamp >= cacheTtl
    /\ providerRequests = 2

\* The list that a call of getSupportedCurrencies made in this state and
\* answered by http would yield.
yielded(http) ==
    IF currenciesCache # <<>> /\ now - currenciesCacheTimestamp < cacheTtl
    THEN codesOf(currenciesCache)
    ELSE IF fetchFailed(http) THEN fallbackCodes
    ELSE [i \in 1..Len(http.data) |-> toUpperCase(http.data[i].code)]

inList(code, codes) == \E i \in 1..Len(codes) : codes[i] = toUpperCase(code)

\* C18: isCurrencySupported always returns: false for a code that is not
\* exactly 3 characters, otherwise true exactly when the upper-cased code is
\* in the list getSupportedCurrencies yields, so 'USD' is supported whenever
\* the currency-list request fails.
C18_SupportedNeverRaises ==
    [][ /\ \A code \in CurrencyCodes :
             (SupportedCall(code) /\ lastRate'.op # "request") =>
                /\ lastRate'.op = "isCurrencySupported"
                /\ lastRate'.result \in BOOLEAN
                /\ (code \in {Undefined, Null} \/ Len(code) # 3) =>
                      (lastRate'.result = FALSE /\ providerRequests' = providerRequests)
                /\ (code \notin {Undefined, Null} /\ Len(code) = 3) =>
                      (lastRate'.result = inList(code, codesOf(currenciesCache)))
        /\ \A http \in CurrencyOutcomes :
             SupportedResponse(http) =>
                /\ lastRate'.op = "isCurrencySupported"
                /\ lastRate'.result = inList(lastRate'.code, yielded(http))
                /\ (fetchFailed(http) /\ lastRate'.code = USD) => lastRate'.result = TRUE
      ]_vars

\* 'usd' was found supported from the fallback list after a failed request.
C18_Witness ==
    /\ lastRate.op = "isCurrencySupported"
    /\ lastRate.code = <<"u","s","d">>
    /\ lastRate.result = TRUE
    /\ currenciesCache = <<>>
    /\ providerRequests = 1

-----------------------------------------------------------------------------
\* CSVProductRepository: the auxiliary lookups.

NotInitialized == Throw(<<"Product repository not initialized">>)

DefaultListLimit == 10

\* A limit parameter with its default.
limitOr(limit) == IF limit = undefinedNum THEN DefaultListLimit ELSE limit

\* sort((a, b) => a.getNumericPrice() - b.getNumericPrice()), stable.
sortByPrice(s) ==
    LET rank(i) == 1 + Cardinality({j \in 1..Len(s) :
                        \/ getNumericPrice(s[j]) < getNumericPrice(s[i])
                        \/ getNumericPrice(s[j]) = getNumericPrice(s[i]) /\ j < i})
    IN [k \in 1..Len(s) |-> s[CHOOSE i \in 1..Len(s) : rank(i) = k]]

\* The comparator of searchByEmbeddingText: the term in the title first, then
\* discounted, then by price.
embeddingCmp(a, b, searchTerm) ==
    LET aInTitle == includes(toLowerCase(a.displayTitle), searchTerm)
        bInTitle == includes(toLowerCase(b.displayTitle), searchTerm)
    IN IF aInTitle /\ ~bInTitle THEN 0 - 1
       ELSE IF ~aInTitle /\ bInTitle THEN 1
       ELSE relevanceCmp(a, b)

sortByEmbedding(s, searchTerm) ==
    LET rank(i) == 1 + Cardinality({j \in 1..Len(s) :
                        \/ embeddingCmp(s[j], s[i], searchTerm) < 0
                        \/ embeddingCmp(s[j], s[i], searchTerm) = 0 /\ j < i})
    IN [k \in 1..Len(s) |-> s[CHOOSE i \in 1..Len(s) : rank(i) = k]]

\* Array.prototype.find: the first element that passes, as a list of at most
\* one product (empty for null).
firstOf(s) == IF s = <<>> THEN <<>> ELSE <<s[1]>>

findByDisplayTitle(displayTitle, store, initialized) ==
    IF ~initialized THEN NotInitialized
    ELSE LET same(p) == toLowerCase(p.displayTitle) = trim(toLowerCase(displayTitle))
         IN Ok(firstOf(SelectSeq(store, same)))

findByUrl(url, store, initialized) ==
    IF ~initialized THEN NotInitialized
    ELSE LET same(p) == p.url = trim(url)
         IN Ok(firstOf(SelectSeq(store, same)))

getProductTypes(types, initialized) ==
    IF ~initialized THEN NotInitialized ELSE Ok(types)

getDiscountedProducts(limit, store, initialized) ==
    IF ~initialized THEN NotInitialized
    ELSE Ok(slice(sortByPrice(SelectSeq(store, hasDiscount)), 0, limitOr(limit)))

getProductsByPriceRange(minPrice, maxPrice, store, initialized) ==
    IF ~initialized THEN NotInitialized
    ELSE LET inRange(p) == getNumericPrice(p) >= minPrice /\ getNumericPrice(p) <= maxPrice
         IN Ok(sortByPrice(SelectSeq(store, inRange)))

searchByEmbeddingText(query, limit, store, initialized) ==
    IF ~initialized THEN NotInitialized
    ELSE LET searchTerm == trim(toLowerCase(query))
             found(p) == includes(toLowerCase(p.embeddingText), searchTerm)
         IN Ok(slice(sortByEmbedding(SelectSeq(store, found), searchTerm),
                     0, limitOr(limit)))

isReady(store, initialized) == initialized /\ Len(store) > 0

-----------------------------------------------------------------------------
\* CSVProductRepository, from construction, called directly.

\* A file of odd rows: a negative discount and a price without a number, a
\* blank URL, a discount and a price with text around the number.
OddRows ==
    << Row(<<"C","u","p">>, <<>>, <<"u","7">>, Home, <<"-","3">>,
           <<"f","r","e","e">>, Undefined),
       Row(<<"J","a","r">>, <<>>, <<" "," ">>, Home, <<"1">>, <<"2",".","0">>, Undefined),
       Row(<<"B","o","x">>, <<>>, <<"u","9">>, Home, <<"2","x">>,
           <<"$"," ","4">>, Undefined) >>

\* The rows of the catalog file: the catalog, a file with a header only, a
\* file whose only row has no title, and the odd rows.
CatalogFiles == {CsvRows, <<>>, <<CsvRows[4]>>, OddRows}

Queries == {Undefined, <<"T","V"," ">>, <<" "," ">>}
ProductTypes == {Undefined, <<" ","t","e","c","h">>}
MinPrices == {undefinedNum, 130}
MaxPrices == {undefinedNum, 1800}

\* The criteria of the calls: every combination of the filters on the first
\* page, and some calls with the other flag values and with a page.
SearchCriteria ==
    [query : Queries, productType : ProductTypes, minPrice : MinPrices,
     maxPrice : MaxPrices, hasDiscount : {"undefined", "true"},
     hasVariants : {"undefined", "false"}, limit : {undefinedNum},
     offset : {undefinedNum}]
    \cup { [NoCriteria EXCEPT !.hasDiscount = "false", !.hasVariants = "true"],
           [NoCriteria EXCEPT !.hasVariants = "true", !.maxPrice = 130],
           [NoCriteria EXCEPT !.limit = 1, !.offset = 1],
           [NoCriteria EXCEPT !.limit = 2],
           [NoCriteria EXCEPT !.limit = 2, !.offset = 2],
           [NoCriteria EXCEPT !.limit = 2, !.offset = 3],
           [NoCriteria EXCEPT !.limit = 2, !.offset = 4],
           [NoCriteria EXCEPT !.limit = 3, !.offset = 0],
           [NoCriteria EXCEPT !.limit = 0, !.offset = 1],
           [NoCriteria EXCEPT !.limit = 5],
           [NoCriteria EXCEPT !.offset = 5],
           [NoCriteria EXCEPT !.query = <<"T","V"," ">>, !.limit = 1, !.offset = 2],
           [NoCriteria EXCEPT !.hasDiscount = "true", !.limit = 2],
           [NoCriteria EXCEPT !.minPrice = 1800, !.maxPrice = 130] }

Titles == {<<" ","t","V"," ","x">>, <<"T","v">>, <<"R","u","g">>}
Urls == {<<"u","3"," ">>, <<"U","3">>}
Terms == {<<"T","V">>, <<>>, <<"z">>}
Limits == {undefinedNum, 1}

InitCatalog ==
    /\ isInitialized = FALSE /\ products = <<>> /\ productTypes = <<>>
    /\ loading = "pending"
    /\ searchLog = <<>>
    /\ now = 0
    /\ ratesCache = NoRates
    /\ RatesIdle
    /\ ChatIdle

\* The 'end' handler of loadProducts, once the rows were read.
Load(rows) ==
    /\ loading = "pending"
    /\ products' = loadRows(rows)
    /\ productTypes' = loadProductTypes(rows)
    /\ isInitialized' = TRUE
    /\ loading' = "resolved"
    /\ UNCHANGED <<catalogResult, currencyVars, searchLog, rateVars, chatVars>>

\* loadProducts rejects: the file does not exist, or the stream reports an
\* error after any number of rows; onModuleInit rethrows.
LoadFails(failure) ==
    /\ loading = "pending"
    /\ loading' = failure
    /\ UNCHANGED <<products, productTypes, isInitialized>>
    /\ UNCHANGED <<catalogResult, currencyVars, searchLog, rateVars, chatVars>>

\* What a lookup that settled with out, a list of products or a rejection,
\* leaves as its result.
Looked(op, out) ==
    CatalogResult(op, NoCriteria, out, IF out.ok THEN out.val ELSE <<>>,
                  IF out.ok THEN Len(out.val) ELSE 0, FALSE, <<>>)

\* Mutant of storeAfterSearch: filteredProducts starts as this.products itself,
\* so a search without any filter sorts the store's own array.
storeAfterSearchShared(criteria, store, initialized) ==
    IF /\ initialized
       /\ ~truthyTrimmed(criteria.query) /\ ~truthyTrimmed(criteria.productType)
       /\ criteria.hasDiscount = "undefined" /\ criteria.hasVariants = "undefined"
       /\ criteria.minPrice = undefinedNum /\ criteria.maxPrice = undefinedNum
    THEN sort(store) ELSE store

\* this.products after searchProducts: sort works in place, on the copy
\* [...this.products] or on what filter built from it, never on this.products.
storeAfterSearch(criteria, store, initialized) == store

SearchProducts(criteria) ==
    /\ \E out \in {searchProducts(criteria, products, isInitialized)} :
          catalogResult' = CatalogResult("searchProducts", criteria, out,
                                         IF out.ok THEN out.val.products ELSE <<>>,
                                         IF out.ok THEN out.val.total ELSE 0,
                                         out.ok /\ out.val.hasMore, <<>>)
    /\ products' = storeAfterSearch(criteria, products, isInitialized)
    /\ UNCHANGED <<productTypes, isInitialized, loading>>
    /\ UNCHANGED <<currencyVars, searchLog, rateVars, chatVars>>

FindByDisplayTitle(displayTitle) ==
    /\ catalogResult' = Looked("findByDisplayTitle",
                               findByDisplayTitle(displayTitle, products, isInitialized))
    /\ UNCHANGED <<catalogVars, currencyVars, searchLog, rateVars, chatVars>>

FindByUrl(url) ==
    /\ catalogResult' = Looked("findByUrl", findByUrl(url, products, isInitialized))
    /\ UNCHANGED <<catalogVars, currencyVars, searchLog, rateVars, chatVars>>

GetProductTypes ==
    /\ \E out \in {getProductTypes(productTypes, isInitialized)} :
          catalogResult' = CatalogResult("getProductTypes", NoCriteria, out, <<>>, 0, FALSE,
                                         IF out.ok THEN out.val ELSE <<>>)
    /\ UNCHANGED <<catalogVars, currencyVars, searchLog, rateVars, chatVars>>

GetDiscountedProducts(limit) ==
    /\ catalogResult' = Looked("getDiscountedProducts",
                               getDiscountedProducts(limit, products, isInitialized))
    /\ UNCHANGED <<catalogVars, currencyVars, searchLog, rateVars, chatVars>>

GetProductsByPriceRange(minPrice, maxPrice) ==
    /\ catalogResult' = Looked("getProductsByPriceRange",
                               getProductsByPriceRange(minPrice, maxPrice, products,
                                                       isInitialized))
    /\ UNCHANGED <<catalogVars, currencyVars, searchLog, rateVars, chatVars>>

SearchByEmbeddingText(query, limit) ==
    /\ catalogResult' = Looked("searchByEmbeddingText",
                               searchByEmbeddingText(query, limit, products, isInitialized))
    /\ UNCHANGED <<catalogVars, currencyVars, searchLog, rateVars, chatVars>>

IsReady ==
    /\ catalogResult' = CatalogResult(IF isReady(products, isInitialized)
                                      THEN "isReady: true" ELSE "isReady: false",
                                      NoCriteria, Ok(<<>>), <<>>, 0, FALSE, <<>>)
    /\ UNCHANGED <<catalogVars, currencyVars, searchLog, rateVars, chatVars>>

NextCatalog ==
    \/ \E rows \in CatalogFiles : Load(rows)
    \/ \E failure \in {"missing", "unreadable"} : LoadFails(failure)
    \/ \E criteria \in SearchCriteria : SearchProducts(criteria)
    \/ \E displayTitle \in Titles : FindByDisplayTitle(displayTitle)
    \/ \E url \in Urls : FindByUrl(url)
    \/ GetProductTypes
    \/ \E limit \in Limits : GetDiscountedProducts(limit)
    \/ \E minPrice \in {0, 130}, maxPrice \in {205, 1800} :
          GetProductsByPriceRange(minPrice, maxPrice)
    \/ \E query \in Terms, limit \in Limits : SearchByEmbeddingText(query, limit)
    \/ IsReady

SpecCatalog == InitCatalog /\ [][NextCatalog]_vars

\* A call of a catalog operation other than isReady.
CatalogOperation ==
    \/ \E criteria \in SearchCriteria : SearchProducts(criteria)
    \/ \E displayTitle \in Titles : FindByDisplayTitle(displayTitle)
    \/ \E url \in Urls : FindByUrl(url)
    \/ GetProductTypes
    \/ \E limit \in Limits : GetDiscountedProducts(limit)
    \/ \E minPrice \in {0, 130}, maxPrice \in {205, 1800} :
          GetProductsByPriceRange(minPrice, maxPrice)
    \/ \E query \in Terms, limit \in Limits : SearchByEmbeddingText(query, limit)

\* C19, as stated: a catalog operation other than isReady that is invoked
\* while isReady reports false fails with the 'not initialized' error and
\* returns no products, and one invoked while isReady reports true succeeds.
C19_NotReadyRejected ==
    [][ CatalogOperation =>
          IF isReady(products, isInitialized)
          THEN catalogResult'.ok
          ELSE /\ ~catalogResult'.ok
               /\ catalogResult'.err = <<"Product repository not initialized">>
               /\ catalogResult'.products = <<>>
      ]_vars

\* The filter is supplied.
suppliedText(text) == text \notin {Undefined, Null} /\ trim(text) # <<>>

\* Product p passes every filter that the criteria supply.
satisfies(p, criteria) ==
    /\ suppliedText(criteria.query) =>
          includes(toLowerCase(p.displayTitle \o <<" ">> \o p.embeddingText),
                   toLowerCase(trim(criteria.query)))
    /\ suppliedText(criteria.productType) =>
          toLowerCase(p.productType) = toLowerCase(trim(criteria.productType))
    /\ criteria.minPrice # undefinedNum => getNumericPrice(p) >= criteria.minPrice
    /\ criteria.maxPrice # undefinedNum => getNumericPrice(p) <= criteria.maxPrice
    /\ criteria.hasDiscount = "true" => p.discount = 1
    /\ criteria.hasDiscount = "false" => p.discount # 1
    /\ criteria.hasVariants = "true" => hasVariants(p)
    /\ criteria.hasVariants = "false" => ~hasVariants(p)

\* C20: every product that searchProducts returns passes all the supplied
\* filters (query in title and text ignoring case, category ignoring case,
\* price within the inclusive bounds, discount and variants flags), and total
\* is the number of products of the store that pass them all.
C20_FiltersAnded ==
    (catalogResult.op = "searchProducts" /\ catalogResult.ok) =>
        /\ \A i \in DOMAIN catalogResult.products :
              /\ satisfies(catalogResult.products[i], catalogResult.criteria)
              /\ \E k \in DOMAIN products : products[k] = catalogResult.products[i]
        /\ catalogResult.total =
              Cardinality({k \in DOMAIN products :
                             satisfies(products[k], catalogResult.criteria)})

\* A search with a query, a category, both price bounds and the discount flag
\* returned the two products whose prices are the bounds.
C20_Witness ==
    /\ catalogResult.op = "searchProducts"
    /\ catalogResult.criteria.query = <<"T","V"," ">>
    /\ catalogResult.criteria.productType = <<" ","t","e","c","h">>
    /\ catalogResult.criteria.minPrice = 130
    /\ catalogResult.criteria.maxPrice = 1800
    /\ catalogResult.criteria.hasDiscount = "true"
    /\ catalogResult.total = 2
    /\ Len(catalogResult.products) = 2
    /\ getNumericPrice(catalogResult.products[1]) = 130
    /\ getNumericPrice(catalogResult.products[2]) = 1800

\* The products of the store that pass the criteria, in the order of the search.
filteredList(criteria) ==
    LET keep(p) == satisfies(p, criteria)
    IN sort(SelectSeq(products, keep))

\* The limit and the offset of a search: the supplied ones, 20 and 0 without.
pageLimit(criteria) == IF criteria.limit = undefinedNum THEN 20 ELSE criteria.limit
pageOffset(criteria) == IF criteria.offset = undefinedNum THEN 0 ELSE criteria.offset

\* C21, as stated: searchProducts returns the filtered count as total, the
\* slice [offset, offset + limit) of the sorted filtered list as its page (so
\* at most limit products), and hasMore exactly when offset + limit < total;
\* the limit is 20 and the offset 0 only when they are not supplied.
C21_Pagination ==
    (catalogResult.op = "searchProducts" /\ catalogResult.ok) =>
        LET all == filteredList(catalogResult.criteria)
            limit == pageLimit(catalogResult.criteria)
            offset == pageOffset(catalogResult.criteria)
        IN /\ catalogResult.total = Len(all)
           /\ catalogResult.products =
                 SubSeq(all, offset + 1, Min(offset + limit, Len(all)))
           /\ Len(catalogResult.products) <= limit
           /\ catalogResult.hasMore = (offset + limit < catalogResult.total)

\* Product a comes before product b in the order of the results: a is
\* discounted and b is not, or they agree on that and a is cheaper.
precedes(a, b) ==
    \/ a.discount = 1 /\ b.discount # 1
    \/ (a.discount = 1) = (b.discount = 1) /\ getNumericPrice(a) < getNumericPrice(b)

\* The two criteria differ in the page only, and the second page follows the
\* first.
nextPage(first, second) ==
    /\ [first EXCEPT !.limit = 0, !.offset = 0] = [second EXCEPT !.limit = 0, !.offset = 0]
    /\ first.limit \notin {undefinedNum, 0}
    /\ second.limit = first.limit
    /\ pageOffset(second) = pageOffset(first) + first.limit

\* C22: in a page that searchProducts returns no product precedes, in the
\* order discounted first and then ascending price, a product that stands
\* before it, and no product of the page that follows does so either.
C22_PageOrder ==
    [][ (catalogResult'.op = "searchProducts" /\ catalogResult'.ok) =>
             /\ \A i, j \in DOMAIN catalogResult'.products :
                   i < j => ~precedes(catalogResult'.products[j], catalogResult'.products[i])
             /\ ( /\ catalogResult.op = "searchProducts" /\ catalogResult.ok
                  /\ nextPage(catalogResult.criteria, catalogResult'.criteria) ) =>
                   \A i \in DOMAIN catalogResult.products,
                      j \in DOMAIN catalogResult'.products :
                        ~precedes(catalogResult'.products[j], catalogResult.products[i])
      ]_vars

\* The second page of two held a discounted product before a cheaper one
\* without discount.
C22_Witness ==
    /\ catalogResult.op = "searchProducts"
    /\ catalogResult.criteria.limit = 2
    /\ catalogResult.criteria.offset = 2
    /\ Len(catalogResult.products) = 2
    /\ catalogResult.products[1].discount = 1
    /\ catalogResult.products[2].discount = 0
    /\ getNumericPrice(catalogResult.products[1]) > getNumericPrice(catalogResult.products[2])

\* The product lists that a load can install.
LoadedStores == {loadRows(rows) : rows \in CatalogFiles}

\* C23: after the load no query operation changes the stored product list
\* or its order: a search returns what its criteria return on a list as it
\* was loaded, whatever was called before it, and the same as the search
\* before it when that had the same criteria.
C23_QueriesLeaveStore ==
    [][ /\ isInitialized =>
              /\ products' = products
              /\ productTypes' = productTypes
              /\ isInitialized' = isInitialized
        /\ (isInitialized /\ catalogResult'.op = "searchProducts") =>
              /\ products' \in LoadedStores
              /\ catalogResult'.ok
              /\ catalogResult'.products =
                    searchProducts(catalogResult'.criteria, products', TRUE).val.products
              /\ catalogResult'.total =
                    searchProducts(catalogResult'.criteria, products', TRUE).val.total
        /\ ( /\ catalogResult.op = "searchProducts" /\ catalogResult.ok
             /\ catalogResult'.op = "searchProducts"
             /\ catalogResult'.criteria = catalogResult.criteria ) =>
                 catalogResult' = catalogResult
      ]_vars

\* A search without filters returned the five products in another order than
\* the store holds them, and the store is still in the order of the file.
C23_Witness ==
    /\ catalogResult.op = "searchProducts"
    /\ catalogResult.criteria = NoCriteria
    /\ Len(catalogResult.products) = 5
    /\ catalogResult.products # products
    /\ products = loadRows(CsvRows)

-----------------------------------------------------------------------------
\* The text that chat returns.

\* The fixed messages of chat.
fixedTexts ==
    {ErrorText, NoResponseText, NoFinalText, SearchFallbackText, ConvertFallbackText}

\* The texts the oracle produced in this invocation.
oracleTexts ==
    (IF initialResponse.defined THEN {initialResponse.content} ELSE {})
    \cup (IF finalChoice.defined THEN {finalChoice.content} ELSE {})

\* The messages of the exceptions that chat can catch.
exceptionMessages ==
    { <<"Connection error.">>,
      <<"Cannot read properties of undefined (reading '0')">>,
      <<"No response choice returned from OpenAI">>,
      <<"Cannot read properties of undefined (reading 'tool_calls')">>,
      <<"Cannot read properties of undefined (reading 'content')">>,
      <<"Cannot destructure property 'name' of 'func' as it is undefined.">> }

\* C24: the text chat returns is a text of the oracle or one of the fixed
\* messages, and unless it is a text of the oracle it contains neither the
\* message of a caught exception nor the error of a failed tool execution.
C24_NoErrorDetail ==
    (pc = "done" /\ ~raised) =>
        /\ response.response \in fixedTexts \cup oracleTexts
        /\ response.response \notin oracleTexts =>
              /\ \A m \in exceptionMessages : ~includes(response.response, m)
              /\ \A i \in DOMAIN toolResults :
                    (toolState[i] = "done" /\ ~toolResults[i].success) =>
                        ~includes(response.response, toolResults[i].error)

\* A tool execution failed, the second oracle call failed too, and chat
\* returned the fixed error message.
C24_Witness ==
    /\ pc = "done" /\ caught /\ ~raised
    /\ someToolFailed
    /\ Len(oracleCalls) = 2
    /\ response.response = ErrorText
    /\ response.response \notin oracleTexts

-----------------------------------------------------------------------------
\* The order of the oracle calls and the tool executions.

\* Every requested execution has completed.
allCompleted(states) ==
    states # <<>> /\ \A i \in DOMAIN states : states[i] = "done"

\* C25: no tool execution starts before the first oracle response; the
\* second oracle call is issued only when every requested execution has
\* completed, and chat then returns after exactly two oracle calls, never a
\* third; the second response starts no execution, whatever tool calls it
\* holds.
C25_SinglePass ==
    [][ /\ pc' \in {"idle", "oracle1"} =>
              toolState' = <<>> /\ toolResults' = <<>> /\ searchLog' = <<>>
        /\ toolState' # <<>> =>
              /\ initialResponse'.defined /\ initialResponse'.tool_calls # <<>>
              /\ Len(toolState') = Len(initialResponse'.tool_calls)
        /\ Len(oracleCalls') <= 2
        /\ Len(oracleCalls') = 2 => allCompleted(toolState')
        /\ (pc' = "done" /\ allCompleted(toolState')) => Len(oracleCalls') = 2
        /\ Len(oracleCalls) = 2 =>
              /\ oracleCalls' = oracleCalls
              /\ toolState' = toolState /\ toolResults' = toolResults
              /\ searchLog' = searchLog /\ providerRequests' = providerRequests
      ]_vars

\* Two executions completed, the conversion last, before the second oracle
\* call; its response held a tool call, and nothing was executed for it.
C25_Witness ==
    /\ pc = "done" /\ ~caught
    /\ Len(oracleCalls) = 2
    /\ Len(toolState) = 2
    /\ \E i \in DOMAIN completionOrder :
          i < Len(completionOrder) /\ completionOrder[i] > completionOrder[i + 1]
    /\ finalChoice.hasToolCalls /\ finalChoice.tool_calls # <<>>
    /\ Len(searchLog) <= 2

-----------------------------------------------------------------------------
\* OpenExchangeRatesService shared by concurrent callers of getExchangeRate
\* and getSupportedCurrencies: a call runs up to its await of the provider in
\* one step and from the provider's answer to its return in another.

SharedPairs == {<<USD, EUR>>, <<<<"u","s","d">>, <<"E","u","r">>>>, <<EUR, GBP>>}

ListedTo(c, list, served) == [Listed(list, served) EXCEPT !.client = c]

\* Caller c calls getSupportedCurrencies.
SharedCurrenciesCall(c) ==
    /\ rateCalls[c].phase = "idle"
    /\ \E l \in {getSupportedCurrenciesStart(currenciesCache, currenciesCacheTimestamp, now)} :
          IF l.kind = "request" THEN
             /\ providerRequests < MaxRequests
             /\ providerRequests' = providerRequests + 1
             /\ rateCalls' = [rateCalls EXCEPT ![c] =
                                [phase |-> "currencies", from |-> <<>>, to |-> <<>>]]
             /\ lastRate' = [Requested EXCEPT !.client = c]
          ELSE
             /\ lastRate' = ListedTo(c, l.list, "cache")
             /\ UNCHANGED <<providerRequests, rateCalls>>
    /\ UNCHANGED <<ratesCache, now, currencyVars>>
    /\ UNCHANGED <<catalogVars, catalogResult, searchLog, chatVars>>

\* The provider answers caller c's request for the currencies.
SharedCurrenciesResponse(c, http) ==
    /\ rateCalls[c].phase = "currencies"
    /\ lastRate' = ListedTo(c, getSupportedCurrenciesFinish(http).val,
                            IF fetched(http) THEN "provider" ELSE "fallback")
    /\ currenciesCache' = currenciesCacheAfter(currenciesCache, http)
    /\ currenciesCacheTimestamp' = currenciesTimestampAfter(currenciesCacheTimestamp, http, now)
    /\ rateCalls' = [rateCalls EXCEPT ![c] = NoCall]
    /\ UNCHANGED <<ratesCache, now, providerRequests>>
    /\ UNCHANGED <<catalogVars, catalogResult, searchLog, chatVars>>

NextShared ==
    \/ \E c \in Clients, p \in SharedPairs : RateCall(c, p[1], p[2])
    \/ \E c \in Clients, http \in HttpOutcomes : RateResponse(c, http)
    \/ \E c \in Clients : SharedCurrenciesCall(c)
    \/ \E c \in Clients, http \in CurrencyOutcomes : SharedCurrenciesResponse(c, http)
    \/ Tick

SpecShared == InitRates /\ [][NextShared]_vars

\* A rate entry as one successful fetch writes it: a positive finite rate and
\* the time of the write.
wholeEntry(entry, t) ==
    /\ DOMAIN entry = {"data", "timestamp"}
    /\ entry.data.n > 0 /\ entry.data.d > 0
    /\ entry.timestamp \in 0..t

\* The step in which the call of caller c in the given phase returns.
returns(c, phase) == rateCalls[c].phase = phase /\ rateCalls'[c].phase = "idle"

\* C26: under every interleaving of concurrent getExchangeRate and
\* getSupportedCurrencies calls each rate entry is the whole (rate, timestamp)
\* pair of one successful fetch with a positive finite rate, the rate cache
\* changes only by such a write, the cached currency list and its timestamp
\* change only together and to the list and time of one successful fetch, and
\* the fetch that completes last leaves its own entry.
C26_WholeEntries ==
    [][ /\ \A k \in DOMAIN ratesCache' : wholeEntry(ratesCache'[k], now')
        /\ currenciesCache' = NullCurrencies => currenciesCacheTimestamp' = 0
        /\ ratesCache' # ratesCache =>
              \E c \in Clients : returns(c, "waiting") /\ lastRate'.op = "fetched"
        /\ \A c \in Clients :
              (returns(c, "waiting") /\ lastRate'.op = "fetched") =>
                  /\ lastRate'.client = c
                  /\ ratesCache' = cacheSet(ratesCache,
                                            keyOf(rateCalls[c].from, rateCalls[c].to),
                                            [data |-> lastRate'.rate, timestamp |-> now])
        /\ (currenciesCache' # currenciesCache
            \/ currenciesCacheTimestamp' # currenciesCacheTimestamp) =>
              \E c \in Clients : returns(c, "currencies") /\ lastRate'.served = "provider"
        /\ \A c \in Clients :
              returns(c, "currencies") =>
                  IF lastRate'.served = "provider"
                  THEN /\ currenciesCache' = lastRate'.currencies
                       /\ currenciesCache' # NullCurrencies
                       /\ currenciesCacheTimestamp' = now
                  ELSE UNCHANGED <<currenciesCache, currenciesCacheTimestamp>>
      ]_vars

\* Two refreshes of the same key raced: one caller still waits for the
\* provider while the entry of the other caller's fetch, written at this
\* moment, is in the cache next to a cached currency list.
C26_Witness ==
    /\ \E c \in Clients :
          /\ rateCalls[c].phase = "waiting"
          /\ lastRate.op = "fetched" /\ lastRate.client # c
          /\ keyOf(rateCalls[c].from, rateCalls[c].to) \in DOMAIN ratesCache
          /\ ratesCache[keyOf(rateCalls[c].from, rateCalls[c].to)] =
                [data |-> lastRate.rate, timestamp |-> now]
    /\ currenciesCache # NullCurrencies
    /\ currenciesCacheTimestamp > 0

-----------------------------------------------------------------------------
\* A failing getExchangeRate, checked under SpecClient.

\* The error message names the pair of codes.
namesPair(err, from, to) ==
    LET prefix == <<"Failed to get exchange rate from ">> \o from \o <<" to ">> \o to
                  \o <<": ">>
    IN Len(err) > Len(prefix) /\ SubSeq(err, 1, Len(prefix)) = prefix

\* C27: a getExchangeRate call that fails on the provider's answer (transport
\* error, timeout, empty or missing rates, invalid computed rate) has issued
\* the one request of its start and none after it, leaves the rate cache as
\* it was (an expired entry keeps its rate and timestamp and is not
\* returned), and raises one error that names the source and target codes.
C27_FailureLeavesCache ==
    [][ /\ (rateCalls[Caller].phase = "idle" /\ rateCalls'[Caller].phase = "waiting") =>
              /\ providerRequests' = providerRequests + 1
              /\ ratesCache' = ratesCache
        /\ rateCalls[Caller].phase = "waiting" => providerRequests' = providerRequests
        /\ (returns(Caller, "waiting") /\ lastRate'.op = "failed") =>
              /\ ratesCache' = ratesCache
              /\ lastRate'.rate = undefinedRate
              /\ namesPair(lastRate'.err, toUpperCase(rateCalls[Caller].from),
                           toUpperCase(rateCalls[Caller].to))
        /\ \A http \in ProviderOutcomes :
              (RateResponse(Caller, http) /\ ~answersPair(toUpperCase(rateCalls[Caller].from),
                                                         toUpperCase(rateCalls[Caller].to),
                                                         http)) =>
                  lastRate'.op = "failed"
      ]_vars

\* The second request for a pair, made after its entry expired, failed: the
\* expired entry is still in the cache.
C27_Witness ==
    /\ lastRate.op = "failed"
    /\ rateCalls[Caller].phase = "idle"
    /\ providerRequests = 2
    /\ namesPair(lastRate.err, USD, EUR)
    /\ expired(keyOf(USD, EUR))

-----------------------------------------------------------------------------
\* The readiness of the store, checked under SpecCatalog.

\* What isReady() reports.
ready == isReady(products, isInitialized)

\* C28, as stated: isReady() reports false from construction until the load
\* has consumed the source, reports true from the step that installs the
\* complete product list and category set, never reports false after it
\* reported true, and reports false for ever after a load that failed; no
\* product is visible before that step.
C28_Readiness ==
    [][ /\ loading' = "pending" => ~ready' /\ products' = <<>> /\ productTypes' = <<>>
        /\ loading \in {"missing", "unreadable"} =>
              loading' = loading /\ ~ready' /\ products' = <<>>
        /\ ready => ready'
        /\ (loading = "pending" /\ loading' = "resolved") =>
              /\ \E rows \in CatalogFiles :
                    products' = loadRows(rows) /\ productTypes' = loadProductTypes(rows)
              /\ ready'
        /\ (~ready /\ ready') => (loading = "pending" /\ loading' = "resolved")
      ]_vars

-----------------------------------------------------------------------------
\* The conventions of the auxiliary lookups, checked under SpecCatalog.

\* The list is in the order of searchProducts: no product precedes one that
\* stands before it.
inSearchOrder(list) ==
    \A i, j \in DOMAIN list : i < j => ~precedes(list[j], list[i])

\* The products are those of the store that match the text as searchProducts
\* matches it, up to the limit.
matchesAsSearch(list, query, limit, store) ==
    LET matched(p) == matchesQuery(p, trim(query))
    IN /\ \A i \in DOMAIN list : matched(list[i])
       /\ Len(list) = Min(limitOr(limit), Len(SelectSeq(store, matched)))

\* C29, as stated: the results of getDiscountedProducts,
\* getProductsByPriceRange and searchByEmbeddingText are in the order of
\* searchProducts, discounted products first and then by ascending price, and
\* searchByEmbeddingText returns the products whose title and descriptive
\* text, taken together, contain the query whatever its case.
C29_SameConventions ==
    [][ /\ (\E limit \in Limits : GetDiscountedProducts(limit)) =>
              inSearchOrder(catalogResult'.products)
        /\ (\E minPrice \in {0, 130}, maxPrice \in {205, 1800} :
               GetProductsByPriceRange(minPrice, maxPrice)) =>
              inSearchOrder(catalogResult'.products)
        /\ \A query \in Terms, limit \in Limits :
              (SearchByEmbeddingText(query, limit) /\ catalogResult'.ok) =>
                  /\ inSearchOrder(catalogResult'.products)
                  /\ matchesAsSearch(catalogResult'.products, query, limit, products)
      ]_vars

-----------------------------------------------------------------------------
\* The products the load keeps, checked under SpecCatalog.

\* The row has a title and a URL once the blanks around them are removed.
complete(row) ==
    /\ isString(row.displayTitle) /\ trim(row.displayTitle) # <<>>
    /\ isString(row.url) /\ trim(row.url) # <<>>

\* The price holds a number.
hasNumber(price) == \E i \in DOMAIN price : isDigit(price[i])

\* C30: after the load every product of the store has a non-empty title and
\* URL, a discount of 0 or 1 (0 for a discount that is no number or is
\* negative, 1 for one above 1) and a price that parses to a number that is
\* not negative (0 without a numeric token); the store holds one product for
\* each row with a title and a URL, in the order of the rows, so a row
\* without them is skipped and takes no other row with it.
C30_LoadedProducts ==
    [][ /\ \A i \in DOMAIN products' :
              /\ products'[i].displayTitle # <<>> /\ products'[i].url # <<>>
              /\ products'[i].discount \in {0, 1}
              /\ getNumericPrice(products'[i]) >= 0
              /\ ~hasNumber(products'[i].price) => getNumericPrice(products'[i]) = 0
        /\ \A rows \in CatalogFiles :
              Load(rows) =>
                  LET kept == SelectSeq(rows, complete)
                  IN /\ isInitialized' /\ loading' = "resolved"
                     /\ Len(products') = Len(kept)
                     /\ \A i \in DOMAIN kept :
                           /\ products'[i].displayTitle = trim(kept[i].displayTitle)
                           /\ products'[i].url = trim(kept[i].url)
                           /\ products'[i].discount =
                                 (IF parseInt(kept[i].discount) = NaN THEN 0
                                  ELSE IF parseInt(kept[i].discount) >= 1 THEN 1 ELSE 0)
      ]_vars

\* The odd rows were loaded: the row with the blank URL is not in the store,
\* the rows around it are, with the discounts 0 and 1 and the prices 0 and 4.
C30_Witness ==
    /\ isInitialized
    /\ Len(products) = 2
    /\ products[1].displayTitle = <<"C","u","p">> /\ products[1].discount = 0
    /\ getNumericPrice(products[1]) = 0
    /\ products[2].displayTitle = <<"B","o","x">> /\ products[2].discount = 1
    /\ getNumericPrice(products[2]) = 40

====
